---- MODULE Spec2Model ----
(***************************************************************************)
(* Plugin runtime of DarkPlay: DarkPlay::Core::PluginManager.              *)
(*                                                                         *)
(* The manager keeps a registry (m_loadedPlugins) of loaded plugin records *)
(* guarded by a non-recursive reader/writer lock (m_pluginsLock).  Every   *)
(* thread is modelled with a call stack of frames, so that plugin code and *)
(* signal listeners, which run synchronously on the calling thread, can    *)
(* call back into the manager.                                             *)
(***************************************************************************)
EXTENDS FiniteSets, Integers, Sequences, TLC

\* ------------------------------------------------------------------------
\* Bounds of the model
\* ------------------------------------------------------------------------
NumThreads == 2      \* threads that call into the manager
MaxLoads == 3        \* QPluginLoader objects created during one behaviour
MaxQueue == 3        \* events waiting in the manager's event queue
MaxNest == 1         \* re-entrant calls nested inside plugin code or a listener
MaxCalls == 3        \* calls made by the manager's clients during one behaviour

Threads == 1..NumThreads
MainThread == 1      \* the thread whose event loop delivers queued events
NoThread == 0
NoLoader == 0
NoPlugin == "null"

\* ------------------------------------------------------------------------
\* Module files the loader may be pointed at
\* ------------------------------------------------------------------------
PluginFiles == {"a1", "a2", "b1"}                 \* valid IPlugin modules
BrokenFiles == {"nofile", "notplugin", "noname", "nover"}
FilePaths == PluginFiles \cup BrokenFiles \cup {""}
PluginNames == {"A", "B"}

\* directories given to loadAllPlugins; QDir::exists and
\* QDir::entryList(filters, QDir::Files) with absoluteFilePath, sorted by name
Directories == {"missing", "plugins", "mixed"}
exists(d) == d # "missing"
\* directories whose listing holds a file that cannot be opened, a module
\* without a name, and two modules reporting the same name
FailingDirectories == {"broken", "dups"}
entryList(d) ==
    CASE d = "plugins" -> <<"a1", "b1">>
      [] d = "mixed" -> <<"a1", "notplugin", "b1">>
      [] d = "broken" -> <<"nofile", "noname", "b1">>
      [] d = "dups" -> <<"a1", "a2", "b1">>
      [] OTHER -> << >>

\* loader->instance() yields no object
instanceIsNull(f) == f = "nofile"
\* qobject_cast<IPlugin*> of the root object fails
castFails(f) == f = "notplugin"
\* IPlugin::name() of the module in file f
name(f) ==
    CASE f \in {"a1", "a2", "nover"} -> "A"
      [] f = "b1" -> "B"
      [] OTHER -> ""
\* IPlugin::version() of the module in file f
version(f) == IF f = "nover" THEN "" ELSE "1.0"

InitOutcomes == {"true", "false", "std_exception", "other_exception"}
ShutdownOutcomes == {"return", "std_exception", "other_exception"}

VARIABLES
    m_loadedPlugins,   \* registry: plugin name -> PluginInfo
    m_pluginsLock,     \* [w: writer thread or NoThread, r: set of reader threads]
    stack,             \* per thread: sequence of frames, innermost last
    nextLoader,        \* identity of the next QPluginLoader object
    lastCall,          \* per plugin instance: last lifecycle call made on it
    queue,             \* queued (Qt::QueuedConnection) events, oldest first
    crashed,           \* the process died on a wild access
    calls,             \* number of client calls made so far
    m_pluginsDirectory, \* directory given to the last loadAllPlugins
    unloadedEvents,    \* per name: number of pluginUnloaded(name) emitted so far
    nodeReuse,         \* per name: the erased map node whose memory the record's node took
    wired,             \* the <<plugin object, loader>> of every initializePlugin that ran connect()
    observed,          \* per name: the last of pluginEnabled / pluginDisabled the listeners got
    m_initialized,     \* Application::m_initialized
    m_pluginManager    \* Application::m_pluginManager holds a PluginManager

vars == <<m_loadedPlugins, m_pluginsLock, stack, nextLoader, lastCall, queue, crashed, calls,
          m_pluginsDirectory, unloadedEvents, nodeReuse, wired, observed,
          m_initialized, m_pluginManager>>

\* ------------------------------------------------------------------------
\* Records, frames, events
\* ------------------------------------------------------------------------
\* PluginInfo that leaves the enabled flag at its default, false
PluginInfo_defaultEnabled(obj, ldr, path, en) ==
    [pluginObject |-> obj, loader |-> ldr, filePath |-> path, enabled |-> FALSE]

PluginInfo(obj, ldr, path, en) ==
    [pluginObject |-> obj, loader |-> ldr, filePath |-> path, enabled |-> en]

NewFrame(op, arg, sub) ==
    [op |-> op, pc |-> "ret", arg |-> arg, sub |-> sub,
     plugin |-> NoPlugin,   \* local IPlugin* of the operation
     loader |-> NoLoader,   \* local std::unique_ptr<QPluginLoader>
     it |-> NoLoader,       \* local iterator: node identity (loader of the record found)
     result |-> FALSE,      \* return value, meaningful at pc = "ret"
     pluginNames |-> <<>>,  \* local QStringList of unloadAllPlugins: the names copied
     copied |-> {},         \* ghost: the loaders of the records whose names were copied
     todo |-> <<>>,         \* names still to be handled by a bulk operation
     initOk |-> FALSE,      \* ghost: initialize() returned true in this call
     initFailed |-> FALSE,  \* ghost: initialize() returned false or threw in this call
     found |-> FALSE,       \* ghost: the record was found when the call started
     erased |-> FALSE,      \* ghost: this call erased a record
     posted |-> FALSE]      \* ghost: this call posted a pluginError event

Depth(t) == Len(stack[t])
Top(t) == stack[t][Depth(t)]
At(t, op, pc) == Depth(t) > 0 /\ Top(t).op = op /\ Top(t).pc = pc
SetTop(t, fr) == [stack EXCEPT ![t] = [@ EXCEPT ![Depth(t)] = fr]]
Push(t, fr) == [stack EXCEPT ![t] = Append(@, fr)]
Ret(fr, val) == [fr EXCEPT !.pc = "ret", !.result = val]
\* the call has posted a pluginError event (emitError)
Posts(fr) == [fr EXCEPT !.posted = TRUE]

Frames == UNION {{stack[t][i] : i \in 1..Depth(t)} : t \in Threads}

ErrorEvent(pluginName, error) ==
    [kind |-> "pluginError", name |-> pluginName, error |-> error, plugin |-> NoPlugin, loader |-> NoLoader]
SignalEvent(kind, plugin, ldr) ==
    [kind |-> kind, name |-> "", error |-> IF kind = "errorOccurred" THEN "m" ELSE "",
     plugin |-> plugin, loader |-> ldr]

\* emitError: QMetaObject::invokeMethod(this, "pluginError", Qt::QueuedConnection, ...)
emitError(q, pluginName, error) == Append(q, ErrorEvent(pluginName, error))
CanPost == Len(queue) < MaxQueue

\* ------------------------------------------------------------------------
\* QReadWriteLock (non-recursive)
\* ------------------------------------------------------------------------
canLockForRead(l, t) == l.w = NoThread /\ t \notin l.r
canLockForWrite(l, t) == l.w = NoThread /\ l.r = {}
lockForRead(l, t) == [l EXCEPT !.r = @ \cup {t}]
lockForWrite(l, t) == [l EXCEPT !.w = t]
unlock(l, t) == [w |-> IF l.w = t THEN NoThread ELSE l.w, r |-> l.r \ {t}]
Holds(t) == m_pluginsLock.w = t \/ t \in m_pluginsLock.r

\* ------------------------------------------------------------------------
\* std::unordered_map operations
\* ------------------------------------------------------------------------
contains(m, k) == k \in DOMAIN m
emplace(m, k, v) == IF k \in DOMAIN m THEN m ELSE [x \in DOMAIN m \cup {k} |-> IF x = k THEN v ELSE m[x]]
erase(m, k) == [x \in DOMAIN m \ {k} |-> m[x]]

\* QPluginLoader objects that exist: owned by a record or by a running loadPlugin
LiveLoaders ==
    {m_loadedPlugins[n].loader : n \in DOMAIN m_loadedPlugins}
        \cup {fr.loader : fr \in {g \in Frames : g.loader # NoLoader}}
Released(ldr) == ldr # NoLoader /\ ldr < nextLoader /\ ldr \notin LiveLoaders

\* validatePlugin that accepts an empty version
validatePlugin_nameOnly(f) == name(f) # ""

\* memory of erased map nodes that the allocator can hand out again and that
\* an enablePlugin or disablePlugin call still holds an iterator to
FreedNodes ==
    {fr.it : fr \in {g \in Frames : /\ g.op \in {"enablePlugin", "disablePlugin"}
                                     /\ g.pc # "ret"
                                     /\ Released(g.it)}}
        \ {nodeReuse[k] : k \in DOMAIN m_loadedPlugins}

\* validatePlugin: name and version both non-empty
validatePlugin(f) == name(f) # "" /\ version(f) # ""

\* ------------------------------------------------------------------------
\* Calls: a thread calls an operation from its top level, or re-entrantly
\* from plugin code (initialize / shutdown) or from a signal listener.
\* ------------------------------------------------------------------------
PluginCallPcs == {"load_init", "unload_shutdown", "enable_init", "disable_shutdown"}
ListenerPcs == {"load_emit_loaded", "load_emit_enabled", "unload_emit",
                "enable_emit", "disable_emit", "deliver_listener"}
Nest(t) == Cardinality({i \in 2..Depth(t) : ~stack[t][i].sub})
CanCall(t) ==
    /\ ~crashed
    /\ calls < MaxCalls
    /\ IF Depth(t) = 0 THEN TRUE
       ELSE Top(t).pc \in PluginCallPcs \cup ListenerPcs /\ Nest(t) < MaxNest

Init ==
    /\ m_loadedPlugins = << >>
    /\ m_pluginsLock = [w |-> NoThread, r |-> {}]
    /\ stack = [t \in Threads |-> << >>]
    /\ nextLoader = 1
    /\ lastCall = [f \in PluginFiles |-> "none"]
    /\ queue = << >>
    /\ crashed = FALSE
    /\ calls = 0
    /\ m_pluginsDirectory = ""
    /\ unloadedEvents = [n \in PluginNames |-> 0]
    /\ nodeReuse = [n \in PluginNames |-> NoLoader]
    /\ wired = {<<m_loadedPlugins[n].pluginObject, m_loadedPlugins[n].loader>> : n \in DOMAIN m_loadedPlugins}
    /\ observed = [n \in PluginNames |-> IF n \in DOMAIN m_loadedPlugins THEN "pluginEnabled" ELSE "none"]
    /\ m_initialized = TRUE
    /\ m_pluginManager = TRUE

\* ------------------------------------------------------------------------
\* loadPlugin
\* ------------------------------------------------------------------------
\* entry: empty path check
loadPlugin(t, filePath) ==
    /\ CanCall(t)
    /\ IF filePath = ""
       THEN /\ CanPost
            /\ queue' = emitError(queue, "", "Empty file path provided")
            /\ stack' = Push(t, Posts(NewFrame("loadPlugin", filePath, FALSE)))
       ELSE /\ stack' = Push(t, [NewFrame("loadPlugin", filePath, FALSE) EXCEPT !.pc = "load_lock"])
            /\ UNCHANGED queue
    /\ UNCHANGED <<m_loadedPlugins, m_pluginsLock, nextLoader, lastCall, crashed, m_pluginsDirectory, unloadedEvents, nodeReuse, wired, observed, m_initialized, m_pluginManager>>
    /\ calls' = calls + 1

\* QWriteLocker locker(&m_pluginsLock); loader = make_unique<QPluginLoader>(filePath);
\* loader->instance() starts running the module's code
loadPlugin_lock(t) ==
    /\ ~crashed
    /\ At(t, "loadPlugin", "load_lock")
    /\ canLockForWrite(m_pluginsLock, t)
    /\ nextLoader <= MaxLoads
    /\ m_pluginsLock' = lockForWrite(m_pluginsLock, t)
    /\ stack' = SetTop(t, [Top(t) EXCEPT !.pc = "load_instance", !.loader = nextLoader])
    /\ nextLoader' = nextLoader + 1
    /\ UNCHANGED <<m_loadedPlugins, lastCall, queue, crashed, calls, m_pluginsDirectory, unloadedEvents, nodeReuse, wired, observed, m_initialized, m_pluginManager>>

\* loader->instance() returned; null and interface checks; validatePlugin starts
loadPlugin_instance(t) ==
    /\ ~crashed
    /\ At(t, "loadPlugin", "load_instance")
    /\ LET fr == Top(t) IN
       IF instanceIsNull(fr.arg) \/ castFails(fr.arg)
       THEN /\ CanPost
            /\ queue' = emitError(queue, "", IF instanceIsNull(fr.arg) THEN "Failed to load plugin" ELSE "Invalid plugin interface")
            /\ stack' = SetTop(t, Posts([Ret(fr, FALSE) EXCEPT !.loader = NoLoader]))
            /\ m_pluginsLock' = unlock(m_pluginsLock, t)
       ELSE /\ stack' = SetTop(t, [fr EXCEPT !.pc = "load_validate", !.plugin = fr.arg])
            /\ UNCHANGED <<queue, m_pluginsLock>>
    /\ UNCHANGED <<m_loadedPlugins, nextLoader, lastCall, crashed, calls, m_pluginsDirectory, unloadedEvents, nodeReuse, wired, observed, m_initialized, m_pluginManager>>

\* loadPlugin_validate without the collision check
loadPlugin_validate_noCollisionCheck(t) ==
    /\ ~crashed
    /\ At(t, "loadPlugin", "load_validate")
    /\ LET fr == Top(t) IN
       IF ~validatePlugin(fr.plugin)
       THEN /\ CanPost
            /\ queue' = emitError(queue, "", "Plugin validation failed")
            /\ stack' = SetTop(t, Posts([Ret(fr, FALSE) EXCEPT !.loader = NoLoader]))
            /\ UNCHANGED wired
       ELSE /\ stack' = SetTop(t, [fr EXCEPT !.pc = "load_init"])
            /\ wired' = wired \cup {<<fr.plugin, fr.loader>>}
            /\ UNCHANGED queue
    /\ m_pluginsLock' = unlock(m_pluginsLock, t)
    /\ UNCHANGED <<m_loadedPlugins, nextLoader, lastCall, crashed, calls, m_pluginsDirectory, unloadedEvents, nodeReuse, observed, m_initialized, m_pluginManager>>

\* validatePlugin(plugin) returned; plugin->name(); collision check; locker.unlock();
\* initializePlugin connects the plugin's signals; plugin->initialize() starts
loadPlugin_validate(t) ==
    /\ ~crashed
    /\ At(t, "loadPlugin", "load_validate")
    /\ LET fr == Top(t)
           pluginName == name(fr.plugin) IN
       IF ~validatePlugin(fr.plugin)
       THEN /\ CanPost
            /\ queue' = emitError(queue, "", "Plugin validation failed")
            /\ stack' = SetTop(t, Posts([Ret(fr, FALSE) EXCEPT !.loader = NoLoader]))
            /\ UNCHANGED wired
       ELSE IF contains(m_loadedPlugins, pluginName)
       THEN /\ CanPost
            /\ queue' = emitError(queue, pluginName, "Plugin already loaded")
            /\ stack' = SetTop(t, Posts([Ret(fr, FALSE) EXCEPT !.loader = NoLoader, !.found = TRUE]))
            /\ UNCHANGED wired
       ELSE /\ stack' = SetTop(t, [fr EXCEPT !.pc = "load_init"])
            /\ wired' = wired \cup {<<fr.plugin, fr.loader>>}
            /\ UNCHANGED queue
    /\ m_pluginsLock' = unlock(m_pluginsLock, t)
    /\ UNCHANGED <<m_loadedPlugins, nextLoader, lastCall, crashed, calls, m_pluginsDirectory, unloadedEvents, nodeReuse, observed, m_initialized, m_pluginManager>>

\* initializePlugin(plugin): plugin->initialize() returns or throws
loadPlugin_initialize(t, outcome) ==
    /\ ~crashed
    /\ At(t, "loadPlugin", "load_init")
    /\ LET fr == Top(t) IN
       /\ lastCall' = [lastCall EXCEPT ![fr.plugin] = IF outcome = "true" THEN "init_true" ELSE "init_fail"]
       /\ IF outcome = "true"
          THEN /\ stack' = SetTop(t, [fr EXCEPT !.pc = "load_relock", !.initOk = TRUE])
               /\ UNCHANGED queue
          ELSE /\ CanPost
               /\ queue' = IF outcome = "other_exception"
                           THEN emitError(queue, "", "Unknown error during plugin loading")
                           ELSE emitError(queue, name(fr.plugin), "Initialization failed")
               /\ stack' = SetTop(t, Posts([Ret(fr, FALSE) EXCEPT !.loader = NoLoader, !.initFailed = TRUE]))
    /\ UNCHANGED <<m_loadedPlugins, m_pluginsLock, nextLoader, crashed, calls, m_pluginsDirectory, unloadedEvents, nodeReuse, wired, observed, m_initialized, m_pluginManager>>

\* loadPlugin_store that drops the record instead of inserting it
loadPlugin_store_noInsert(t) ==
    /\ ~crashed
    /\ At(t, "loadPlugin", "load_relock")
    /\ canLockForWrite(m_pluginsLock, t)
    /\ stack' = SetTop(t, [Top(t) EXCEPT !.pc = "load_emit_loaded", !.loader = NoLoader])
    /\ m_pluginsLock' = unlock(lockForWrite(m_pluginsLock, t), t)
    /\ UNCHANGED <<m_loadedPlugins, nextLoader, lastCall, queue, crashed, calls, m_pluginsDirectory, unloadedEvents, nodeReuse, wired, observed, m_initialized, m_pluginManager>>

\* loadPlugin_store that keeps the write lock while the events are emitted
loadPlugin_store_keepLock(t) ==
    /\ ~crashed
    /\ At(t, "loadPlugin", "load_relock")
    /\ canLockForWrite(m_pluginsLock, t)
    /\ LET fr == Top(t) IN
       /\ m_loadedPlugins' = emplace(m_loadedPlugins, name(fr.plugin),
                                     PluginInfo(fr.plugin, fr.loader, fr.arg, TRUE))
       /\ stack' = SetTop(t, [fr EXCEPT !.pc = "load_emit_loaded", !.loader = NoLoader])
    /\ m_pluginsLock' = lockForWrite(m_pluginsLock, t)
    /\ UNCHANGED <<nextLoader, lastCall, queue, crashed, calls, m_pluginsDirectory, unloadedEvents, nodeReuse, wired, observed, m_initialized, m_pluginManager>>

\* locker.relock(); m_loadedPlugins.emplace(pluginName, std::move(info)); locker.unlock();
\* emit pluginLoaded starts
loadPlugin_store(t) ==
    /\ ~crashed
    /\ At(t, "loadPlugin", "load_relock")
    /\ canLockForWrite(m_pluginsLock, t)
    /\ LET fr == Top(t) IN
       /\ m_loadedPlugins' = emplace(m_loadedPlugins, name(fr.plugin),
                                     PluginInfo(fr.plugin, fr.loader, fr.arg, TRUE))
       /\ stack' = SetTop(t, [fr EXCEPT !.pc = "load_emit_loaded", !.loader = NoLoader])
       /\ IF contains(m_loadedPlugins, name(fr.plugin))
          THEN UNCHANGED nodeReuse
          ELSE \E node \in {NoLoader} \cup FreedNodes :
                  nodeReuse' = [nodeReuse EXCEPT ![name(fr.plugin)] = node]
    /\ m_pluginsLock' = unlock(lockForWrite(m_pluginsLock, t), t)
    /\ UNCHANGED <<nextLoader, lastCall, queue, crashed, calls, m_pluginsDirectory, unloadedEvents, wired, observed, m_initialized, m_pluginManager>>

\* the listeners of pluginLoaded returned; emit pluginEnabled starts
loadPlugin_emitLoaded(t) ==
    /\ ~crashed
    /\ At(t, "loadPlugin", "load_emit_loaded")
    /\ stack' = SetTop(t, [Top(t) EXCEPT !.pc = "load_emit_enabled"])
    /\ observed' = [observed EXCEPT ![name(Top(t).plugin)] = "pluginEnabled"]
    /\ UNCHANGED <<m_loadedPlugins, m_pluginsLock, nextLoader, lastCall, queue, crashed, calls, m_pluginsDirectory, unloadedEvents, nodeReuse, wired, m_initialized, m_pluginManager>>

\* the listeners of pluginEnabled returned; return true
loadPlugin_emitEnabled(t) ==
    /\ ~crashed
    /\ At(t, "loadPlugin", "load_emit_enabled")
    /\ stack' = SetTop(t, Ret(Top(t), TRUE))
    /\ UNCHANGED <<m_loadedPlugins, m_pluginsLock, nextLoader, lastCall, queue, crashed, calls, m_pluginsDirectory, unloadedEvents, nodeReuse, wired, observed, m_initialized, m_pluginManager>>

LoadSteps(t) ==
    \/ loadPlugin_lock(t)
    \/ loadPlugin_instance(t)
    \/ loadPlugin_validate(t)
    \/ \E o \in InitOutcomes : loadPlugin_initialize(t, o)
    \/ loadPlugin_store(t)
    \/ loadPlugin_emitLoaded(t)
    \/ loadPlugin_emitEnabled(t)


\* ------------------------------------------------------------------------
\* Access through a stale pointer or iterator.  Dangling(ldr): the record the
\* pointer or iterator was taken from has been erased and its loader destroyed.
\* The access either behaves as if the object were still there or kills the
\* process (WildAccess).
\* ------------------------------------------------------------------------
Dangling(ldr) == Released(ldr)
validIterator(fr) ==
    /\ contains(m_loadedPlugins, fr.arg)
    /\ m_loadedPlugins[fr.arg].loader = fr.it

\* it->second.enabled.store(val): on a valid iterator the record's flag is set;
\* on an erased node the write goes to freed memory, which is either unused or
\* has been taken by the node of a record inserted since (of any name)
storeEnabled(m, fr, val) ==
    IF contains(m, fr.arg) /\ m[fr.arg].loader = fr.it
    THEN {[m EXCEPT ![fr.arg].enabled = val]}
    ELSE LET hit == {k \in DOMAIN m : nodeReuse[k] = fr.it} IN
         IF hit = {} THEN {m} ELSE {[m EXCEPT ![k].enabled = val] : k \in hit}

DerefPcs == {"unload_shutdown", "enable_init", "enable_store",
             "disable_shutdown", "disable_store", "deliver_name"}

WildAccess(t) ==
    /\ ~crashed
    /\ Depth(t) > 0
    /\ Top(t).pc \in DerefPcs
    /\ Dangling(Top(t).it)
    /\ crashed' = TRUE
    /\ UNCHANGED <<m_loadedPlugins, m_pluginsLock, stack, nextLoader, lastCall, queue, calls, m_pluginsDirectory, unloadedEvents, nodeReuse, wired, observed, m_initialized, m_pluginManager>>

\* ------------------------------------------------------------------------
\* unloadPlugin
\* ------------------------------------------------------------------------
unloadPlugin(t, pluginName) ==
    /\ CanCall(t)
    /\ stack' = Push(t, [NewFrame("unloadPlugin", pluginName, FALSE) EXCEPT
                            !.pc = IF pluginName = "" THEN "ret" ELSE "unload_lock"])
    /\ UNCHANGED <<m_loadedPlugins, m_pluginsLock, nextLoader, lastCall, queue, crashed, m_pluginsDirectory, unloadedEvents, nodeReuse, wired, observed, m_initialized, m_pluginManager>>
    /\ calls' = calls + 1

\* unloadPlugin_find that reports success when the name is not registered
unloadPlugin_find_absentOk(t) ==
    /\ ~crashed
    /\ At(t, "unloadPlugin", "unload_lock")
    /\ canLockForWrite(m_pluginsLock, t)
    /\ LET fr == Top(t) IN
       IF ~contains(m_loadedPlugins, fr.arg)
       THEN stack' = SetTop(t, Ret(fr, TRUE))
       ELSE stack' = SetTop(t, [fr EXCEPT !.pc = "unload_shutdown", !.found = TRUE,
                                          !.it = m_loadedPlugins[fr.arg].loader,
                                          !.plugin = m_loadedPlugins[fr.arg].pluginObject])
    /\ m_pluginsLock' = unlock(lockForWrite(m_pluginsLock, t), t)
    /\ UNCHANGED <<m_loadedPlugins, nextLoader, lastCall, queue, crashed, calls, m_pluginsDirectory, unloadedEvents, nodeReuse, wired, observed, m_initialized, m_pluginManager>>

\* unloadPlugin_find that keeps the write lock across shutdown()
unloadPlugin_find_keepLock(t) ==
    /\ ~crashed
    /\ At(t, "unloadPlugin", "unload_lock")
    /\ canLockForWrite(m_pluginsLock, t)
    /\ LET fr == Top(t) IN
       IF ~contains(m_loadedPlugins, fr.arg)
       THEN /\ stack' = SetTop(t, Ret(fr, FALSE))
            /\ m_pluginsLock' = unlock(lockForWrite(m_pluginsLock, t), t)
       ELSE /\ stack' = SetTop(t, [fr EXCEPT !.pc = "unload_shutdown", !.found = TRUE,
                                             !.it = m_loadedPlugins[fr.arg].loader,
                                             !.plugin = m_loadedPlugins[fr.arg].pluginObject])
            /\ m_pluginsLock' = lockForWrite(m_pluginsLock, t)
    /\ UNCHANGED <<m_loadedPlugins, nextLoader, lastCall, queue, crashed, calls, m_pluginsDirectory, unloadedEvents, nodeReuse, wired, observed, m_initialized, m_pluginManager>>

\* unloadPlugin_find that erases the record before shutdown() is called
unloadPlugin_find_eraseFirst(t) ==
    /\ ~crashed
    /\ At(t, "unloadPlugin", "unload_lock")
    /\ canLockForWrite(m_pluginsLock, t)
    /\ LET fr == Top(t) IN
       IF ~contains(m_loadedPlugins, fr.arg)
       THEN /\ stack' = SetTop(t, Ret(fr, FALSE))
            /\ UNCHANGED m_loadedPlugins
       ELSE /\ stack' = SetTop(t, [fr EXCEPT !.pc = "unload_shutdown", !.found = TRUE,
                                             !.erased = TRUE,
                                             !.it = m_loadedPlugins[fr.arg].loader,
                                             !.plugin = m_loadedPlugins[fr.arg].pluginObject])
            /\ m_loadedPlugins' = erase(m_loadedPlugins, fr.arg)
    /\ m_pluginsLock' = unlock(lockForWrite(m_pluginsLock, t), t)
    /\ UNCHANGED <<nextLoader, lastCall, queue, crashed, calls, m_pluginsDirectory, unloadedEvents, nodeReuse, wired, observed, m_initialized, m_pluginManager>>

\* QWriteLocker; find; copy the plugin pointer; locker.unlock(); shutdown() starts
unloadPlugin_find(t) ==
    /\ ~crashed
    /\ At(t, "unloadPlugin", "unload_lock")
    /\ canLockForWrite(m_pluginsLock, t)
    /\ LET fr == Top(t) IN
       IF ~contains(m_loadedPlugins, fr.arg)
       THEN stack' = SetTop(t, Ret(fr, FALSE))
       ELSE stack' = SetTop(t, [fr EXCEPT !.pc = "unload_shutdown", !.found = TRUE,
                                          !.it = m_loadedPlugins[fr.arg].loader,
                                          !.plugin = m_loadedPlugins[fr.arg].pluginObject])
    /\ m_pluginsLock' = unlock(lockForWrite(m_pluginsLock, t), t)
    /\ UNCHANGED <<m_loadedPlugins, nextLoader, lastCall, queue, crashed, calls, m_pluginsDirectory, unloadedEvents, nodeReuse, wired, observed, m_initialized, m_pluginManager>>

\* unloadPlugin_shutdown whose catch (...) handler erases the record before returning false
unloadPlugin_shutdown_eraseOnThrow(t, outcome) ==
    /\ ~crashed
    /\ At(t, "unloadPlugin", "unload_shutdown")
    /\ LET fr == Top(t) IN
       /\ lastCall' = [lastCall EXCEPT ![fr.plugin] = "shutdown"]
       /\ CASE outcome = "return" ->
                 /\ stack' = SetTop(t, [fr EXCEPT !.pc = "unload_relock"])
                 /\ UNCHANGED <<queue, m_loadedPlugins>>
            [] outcome = "std_exception" ->
                 /\ CanPost
                 /\ queue' = emitError(queue, fr.arg, "Shutdown error")
                 /\ stack' = SetTop(t, Posts([fr EXCEPT !.pc = "unload_relock"]))
                 /\ UNCHANGED m_loadedPlugins
            [] OTHER ->
                 /\ CanPost
                 /\ canLockForWrite(m_pluginsLock, t)
                 /\ queue' = emitError(queue, fr.arg, "Unknown error during unloading")
                 /\ m_loadedPlugins' = erase(m_loadedPlugins, fr.arg)
                 /\ stack' = SetTop(t, Posts([Ret(fr, FALSE) EXCEPT !.erased = contains(m_loadedPlugins, fr.arg)]))
    /\ UNCHANGED <<m_pluginsLock, nextLoader, crashed, calls, m_pluginsDirectory, unloadedEvents, nodeReuse, wired, observed, m_initialized, m_pluginManager>>

\* plugin->shutdown() returns or throws
unloadPlugin_shutdown(t, outcome) ==
    /\ ~crashed
    /\ At(t, "unloadPlugin", "unload_shutdown")
    /\ LET fr == Top(t) IN
       /\ lastCall' = [lastCall EXCEPT ![fr.plugin] = "shutdown"]
       /\ CASE outcome = "return" ->
                 /\ stack' = SetTop(t, [fr EXCEPT !.pc = "unload_relock"])
                 /\ UNCHANGED queue
            [] outcome = "std_exception" ->
                 /\ CanPost
                 /\ queue' = emitError(queue, fr.arg, "Shutdown error")
                 /\ stack' = SetTop(t, Posts([fr EXCEPT !.pc = "unload_relock"]))
            [] OTHER ->
                 /\ CanPost
                 /\ queue' = emitError(queue, fr.arg, "Unknown error during unloading")
                 /\ stack' = SetTop(t, Posts(Ret(fr, FALSE)))
    /\ UNCHANGED <<m_loadedPlugins, m_pluginsLock, nextLoader, crashed, calls, m_pluginsDirectory, unloadedEvents, nodeReuse, wired, observed, m_initialized, m_pluginManager>>

\* locker.relock(); find again; erase (destroys the record and its loader);
\* locker.unlock(); emit pluginUnloaded starts
unloadPlugin_erase(t) ==
    /\ ~crashed
    /\ At(t, "unloadPlugin", "unload_relock")
    /\ canLockForWrite(m_pluginsLock, t)
    /\ LET fr == Top(t) IN
       /\ m_loadedPlugins' = erase(m_loadedPlugins, fr.arg)
       /\ stack' = SetTop(t, [fr EXCEPT !.pc = "unload_emit",
                                        !.erased = contains(m_loadedPlugins, fr.arg)])
       /\ unloadedEvents' = [unloadedEvents EXCEPT ![fr.arg] = @ + 1]
       /\ nodeReuse' = [nodeReuse EXCEPT ![fr.arg] = NoLoader]
    /\ m_pluginsLock' = unlock(lockForWrite(m_pluginsLock, t), t)
    /\ UNCHANGED <<nextLoader, lastCall, queue, crashed, calls, m_pluginsDirectory, wired, observed, m_initialized, m_pluginManager>>

\* the listeners of pluginUnloaded returned; return true
unloadPlugin_emit(t) ==
    /\ ~crashed
    /\ At(t, "unloadPlugin", "unload_emit")
    /\ stack' = SetTop(t, Ret(Top(t), TRUE))
    /\ UNCHANGED <<m_loadedPlugins, m_pluginsLock, nextLoader, lastCall, queue, crashed, calls, m_pluginsDirectory, unloadedEvents, nodeReuse, wired, observed, m_initialized, m_pluginManager>>

UnloadSteps(t) ==
    \/ unloadPlugin_find(t)
    \/ \E o \in ShutdownOutcomes : unloadPlugin_shutdown(t, o)
    \/ unloadPlugin_erase(t)
    \/ unloadPlugin_emit(t)

\* ------------------------------------------------------------------------
\* enablePlugin
\* ------------------------------------------------------------------------
enablePlugin(t, pluginName) ==
    /\ CanCall(t)
    /\ stack' = Push(t, [NewFrame("enablePlugin", pluginName, FALSE) EXCEPT !.pc = "enable_lock"])
    /\ UNCHANGED <<m_loadedPlugins, m_pluginsLock, nextLoader, lastCall, queue, crashed, m_pluginsDirectory, unloadedEvents, nodeReuse, wired, observed, m_initialized, m_pluginManager>>
    /\ calls' = calls + 1

\* enablePlugin_find without the already-enabled test
enablePlugin_find_noEnabledTest(t) ==
    /\ ~crashed
    /\ At(t, "enablePlugin", "enable_lock")
    /\ canLockForRead(m_pluginsLock, t)
    /\ LET fr == Top(t) IN
       IF ~contains(m_loadedPlugins, fr.arg)
       THEN stack' = SetTop(t, Ret(fr, FALSE))
       ELSE stack' = SetTop(t, [fr EXCEPT !.pc = "enable_init", !.found = TRUE,
                                          !.it = m_loadedPlugins[fr.arg].loader,
                                          !.plugin = m_loadedPlugins[fr.arg].pluginObject])
    /\ m_pluginsLock' = unlock(lockForRead(m_pluginsLock, t), t)
    /\ UNCHANGED <<m_loadedPlugins, nextLoader, lastCall, queue, crashed, calls, m_pluginsDirectory, unloadedEvents, nodeReuse, wired, observed, m_initialized, m_pluginManager>>

\* QReadLocker; find; already enabled?; locker.unlock(); initialize() starts
enablePlugin_find(t) ==
    /\ ~crashed
    /\ At(t, "enablePlugin", "enable_lock")
    /\ canLockForRead(m_pluginsLock, t)
    /\ LET fr == Top(t) IN
       IF ~contains(m_loadedPlugins, fr.arg)
       THEN stack' = SetTop(t, Ret(fr, FALSE))
       ELSE IF m_loadedPlugins[fr.arg].enabled
       THEN stack' = SetTop(t, [Ret(fr, TRUE) EXCEPT !.found = TRUE])
       ELSE stack' = SetTop(t, [fr EXCEPT !.pc = "enable_init", !.found = TRUE,
                                          !.it = m_loadedPlugins[fr.arg].loader,
                                          !.plugin = m_loadedPlugins[fr.arg].pluginObject])
    /\ m_pluginsLock' = unlock(lockForRead(m_pluginsLock, t), t)
    /\ UNCHANGED <<m_loadedPlugins, nextLoader, lastCall, queue, crashed, calls, m_pluginsDirectory, unloadedEvents, nodeReuse, wired, observed, m_initialized, m_pluginManager>>

\* plugin->initialize() returns or throws
enablePlugin_initialize(t, outcome) ==
    /\ ~crashed
    /\ At(t, "enablePlugin", "enable_init")
    /\ LET fr == Top(t) IN
       /\ lastCall' = [lastCall EXCEPT ![fr.plugin] = IF outcome = "true" THEN "init_true" ELSE "init_fail"]
       /\ CASE outcome = "true" ->
                 /\ stack' = SetTop(t, [fr EXCEPT !.pc = "enable_store", !.initOk = TRUE])
                 /\ UNCHANGED queue
            [] outcome = "false" ->
                 /\ stack' = SetTop(t, [Ret(fr, FALSE) EXCEPT !.initFailed = TRUE])
                 /\ UNCHANGED queue
            [] OTHER ->
                 /\ CanPost
                 /\ queue' = emitError(queue, fr.arg, IF outcome = "std_exception" THEN "Enable failed" ELSE "Unknown error during enable")
                 /\ stack' = SetTop(t, Posts([Ret(fr, FALSE) EXCEPT !.initFailed = TRUE]))
    /\ UNCHANGED <<m_loadedPlugins, m_pluginsLock, nextLoader, crashed, calls, m_pluginsDirectory, unloadedEvents, nodeReuse, wired, observed, m_initialized, m_pluginManager>>

\* enablePlugin_store that leaves the enabled flag as it is
enablePlugin_store_skip(t) ==
    /\ ~crashed
    /\ At(t, "enablePlugin", "enable_store")
    /\ stack' = SetTop(t, [Top(t) EXCEPT !.pc = "enable_emit"])
    /\ observed' = [observed EXCEPT ![Top(t).arg] = "pluginEnabled"]
    /\ UNCHANGED <<m_loadedPlugins, m_pluginsLock, nextLoader, lastCall, queue, crashed, calls, m_pluginsDirectory, unloadedEvents, nodeReuse, wired, m_initialized, m_pluginManager>>

\* it->second.enabled.store(true); emit pluginEnabled starts
enablePlugin_store(t) ==
    /\ ~crashed
    /\ At(t, "enablePlugin", "enable_store")
    /\ m_loadedPlugins' \in storeEnabled(m_loadedPlugins, Top(t), TRUE)
    /\ stack' = SetTop(t, [Top(t) EXCEPT !.pc = "enable_emit"])
    /\ observed' = [observed EXCEPT ![Top(t).arg] = "pluginEnabled"]
    /\ UNCHANGED <<m_pluginsLock, nextLoader, lastCall, queue, crashed, calls, m_pluginsDirectory, unloadedEvents, nodeReuse, wired, m_initialized, m_pluginManager>>

\* the listeners of pluginEnabled returned; return true
enablePlugin_emit(t) ==
    /\ ~crashed
    /\ At(t, "enablePlugin", "enable_emit")
    /\ stack' = SetTop(t, Ret(Top(t), TRUE))
    /\ UNCHANGED <<m_loadedPlugins, m_pluginsLock, nextLoader, lastCall, queue, crashed, calls, m_pluginsDirectory, unloadedEvents, nodeReuse, wired, observed, m_initialized, m_pluginManager>>

EnableSteps(t) ==
    \/ enablePlugin_find(t)
    \/ \E o \in InitOutcomes : enablePlugin_initialize(t, o)
    \/ enablePlugin_store(t)
    \/ enablePlugin_emit(t)

\* ------------------------------------------------------------------------
\* disablePlugin
\* ------------------------------------------------------------------------
disablePlugin(t, pluginName) ==
    /\ CanCall(t)
    /\ stack' = Push(t, [NewFrame("disablePlugin", pluginName, FALSE) EXCEPT !.pc = "disable_lock"])
    /\ UNCHANGED <<m_loadedPlugins, m_pluginsLock, nextLoader, lastCall, queue, crashed, m_pluginsDirectory, unloadedEvents, nodeReuse, wired, observed, m_initialized, m_pluginManager>>
    /\ calls' = calls + 1

\* disablePlugin_find without the already-disabled test
disablePlugin_find_noDisabledTest(t) ==
    /\ ~crashed
    /\ At(t, "disablePlugin", "disable_lock")
    /\ canLockForRead(m_pluginsLock, t)
    /\ LET fr == Top(t) IN
       IF ~contains(m_loadedPlugins, fr.arg)
       THEN stack' = SetTop(t, Ret(fr, FALSE))
       ELSE stack' = SetTop(t, [fr EXCEPT !.pc = "disable_shutdown", !.found = TRUE,
                                          !.it = m_loadedPlugins[fr.arg].loader,
                                          !.plugin = m_loadedPlugins[fr.arg].pluginObject])
    /\ m_pluginsLock' = unlock(lockForRead(m_pluginsLock, t), t)
    /\ UNCHANGED <<m_loadedPlugins, nextLoader, lastCall, queue, crashed, calls, m_pluginsDirectory, unloadedEvents, nodeReuse, wired, observed, m_initialized, m_pluginManager>>

\* QReadLocker; find; already disabled?; locker.unlock(); shutdown() starts
disablePlugin_find(t) ==
    /\ ~crashed
    /\ At(t, "disablePlugin", "disable_lock")
    /\ canLockForRead(m_pluginsLock, t)
    /\ LET fr == Top(t) IN
       IF ~contains(m_loadedPlugins, fr.arg)
       THEN stack' = SetTop(t, Ret(fr, FALSE))
       ELSE IF ~m_loadedPlugins[fr.arg].enabled
       THEN stack' = SetTop(t, [Ret(fr, TRUE) EXCEPT !.found = TRUE])
       ELSE stack' = SetTop(t, [fr EXCEPT !.pc = "disable_shutdown", !.found = TRUE,
                                          !.it = m_loadedPlugins[fr.arg].loader,
                                          !.plugin = m_loadedPlugins[fr.arg].pluginObject])
    /\ m_pluginsLock' = unlock(lockForRead(m_pluginsLock, t), t)
    /\ UNCHANGED <<m_loadedPlugins, nextLoader, lastCall, queue, crashed, calls, m_pluginsDirectory, unloadedEvents, nodeReuse, wired, observed, m_initialized, m_pluginManager>>

\* disablePlugin_shutdown that clears the enabled flag also when shutdown() throws
disablePlugin_shutdown_storeOnThrow(t, outcome) ==
    /\ ~crashed
    /\ At(t, "disablePlugin", "disable_shutdown")
    /\ LET fr == Top(t) IN
       /\ lastCall' = [lastCall EXCEPT ![fr.plugin] = "shutdown"]
       /\ IF outcome = "return"
          THEN /\ stack' = SetTop(t, [fr EXCEPT !.pc = "disable_store"])
               /\ UNCHANGED <<queue, m_loadedPlugins>>
          ELSE /\ CanPost
               /\ queue' = emitError(queue, fr.arg, IF outcome = "std_exception" THEN "Disable failed" ELSE "Unknown error during disable")
               /\ m_loadedPlugins' \in storeEnabled(m_loadedPlugins, fr, FALSE)
               /\ stack' = SetTop(t, Posts(Ret(fr, FALSE)))
    /\ UNCHANGED <<m_pluginsLock, nextLoader, crashed, calls, m_pluginsDirectory, unloadedEvents, nodeReuse, wired, observed, m_initialized, m_pluginManager>>

\* plugin->shutdown() returns or throws
disablePlugin_shutdown(t, outcome) ==
    /\ ~crashed
    /\ At(t, "disablePlugin", "disable_shutdown")
    /\ LET fr == Top(t) IN
       /\ lastCall' = [lastCall EXCEPT ![fr.plugin] = "shutdown"]
       /\ IF outcome = "return"
          THEN /\ stack' = SetTop(t, [fr EXCEPT !.pc = "disable_store"])
               /\ UNCHANGED queue
          ELSE /\ CanPost
               /\ queue' = emitError(queue, fr.arg, IF outcome = "std_exception" THEN "Disable failed" ELSE "Unknown error during disable")
               /\ stack' = SetTop(t, Posts(Ret(fr, FALSE)))
    /\ UNCHANGED <<m_loadedPlugins, m_pluginsLock, nextLoader, crashed, calls, m_pluginsDirectory, unloadedEvents, nodeReuse, wired, observed, m_initialized, m_pluginManager>>

\* disablePlugin_store that leaves the enabled flag as it is
disablePlugin_store_skip(t) ==
    /\ ~crashed
    /\ At(t, "disablePlugin", "disable_store")
    /\ stack' = SetTop(t, [Top(t) EXCEPT !.pc = "disable_emit"])
    /\ observed' = [observed EXCEPT ![Top(t).arg] = "pluginDisabled"]
    /\ UNCHANGED <<m_loadedPlugins, m_pluginsLock, nextLoader, lastCall, queue, crashed, calls, m_pluginsDirectory, unloadedEvents, nodeReuse, wired, m_initialized, m_pluginManager>>

\* it->second.enabled.store(false); emit pluginDisabled starts
disablePlugin_store(t) ==
    /\ ~crashed
    /\ At(t, "disablePlugin", "disable_store")
    /\ m_loadedPlugins' \in storeEnabled(m_loadedPlugins, Top(t), FALSE)
    /\ stack' = SetTop(t, [Top(t) EXCEPT !.pc = "disable_emit"])
    /\ observed' = [observed EXCEPT ![Top(t).arg] = "pluginDisabled"]
    /\ UNCHANGED <<m_pluginsLock, nextLoader, lastCall, queue, crashed, calls, m_pluginsDirectory, unloadedEvents, nodeReuse, wired, m_initialized, m_pluginManager>>

\* the listeners of pluginDisabled returned; return true
disablePlugin_emit(t) ==
    /\ ~crashed
    /\ At(t, "disablePlugin", "disable_emit")
    /\ stack' = SetTop(t, Ret(Top(t), TRUE))
    /\ UNCHANGED <<m_loadedPlugins, m_pluginsLock, nextLoader, lastCall, queue, crashed, calls, m_pluginsDirectory, unloadedEvents, nodeReuse, wired, observed, m_initialized, m_pluginManager>>

DisableSteps(t) ==
    \/ disablePlugin_find(t)
    \/ \E o \in ShutdownOutcomes : disablePlugin_shutdown(t, o)
    \/ disablePlugin_store(t)
    \/ disablePlugin_emit(t)

\* ------------------------------------------------------------------------
\* unloadAllPlugins
\* ------------------------------------------------------------------------
\* the sequences that list every element of S once (unordered_map iteration order)
RECURSIVE Orders(_)
Orders(S) ==
    IF S = {} THEN {<< >>}
    ELSE UNION {{<<x>> \o o : o \in Orders(S \ {x})} : x \in S}

unloadAllPlugins(t) ==
    /\ CanCall(t)
    /\ stack' = Push(t, [NewFrame("unloadAllPlugins", "", FALSE) EXCEPT !.pc = "ua_snapshot"])
    /\ UNCHANGED <<m_loadedPlugins, m_pluginsLock, nextLoader, lastCall, queue, crashed, m_pluginsDirectory, unloadedEvents, nodeReuse, wired, observed, m_initialized, m_pluginManager>>
    /\ calls' = calls + 1

\* unloadAllPlugins_snapshot whose QReadLocker lives until the function returns
unloadAllPlugins_snapshot_keepLock(t) ==
    /\ ~crashed
    /\ At(t, "unloadAllPlugins", "ua_snapshot")
    /\ canLockForRead(m_pluginsLock, t)
    /\ \E pluginNames \in Orders(DOMAIN m_loadedPlugins) :
          stack' = SetTop(t, [Top(t) EXCEPT !.pc = "ua_loop", !.todo = pluginNames,
                                            !.pluginNames = pluginNames,
                                            !.copied = {m_loadedPlugins[n].loader : n \in DOMAIN m_loadedPlugins}])
    /\ m_pluginsLock' = lockForRead(m_pluginsLock, t)
    /\ UNCHANGED <<m_loadedPlugins, nextLoader, lastCall, queue, crashed, calls, m_pluginsDirectory, unloadedEvents, nodeReuse, wired, observed, m_initialized, m_pluginManager>>

\* QReadLocker; copy the names
unloadAllPlugins_snapshot(t) ==
    /\ ~crashed
    /\ At(t, "unloadAllPlugins", "ua_snapshot")
    /\ canLockForRead(m_pluginsLock, t)
    /\ \E pluginNames \in Orders(DOMAIN m_loadedPlugins) :
          stack' = SetTop(t, [Top(t) EXCEPT !.pc = "ua_loop", !.todo = pluginNames,
                                            !.pluginNames = pluginNames,
                                            !.copied = {m_loadedPlugins[n].loader : n \in DOMAIN m_loadedPlugins}])
    /\ m_pluginsLock' = unlock(lockForRead(m_pluginsLock, t), t)
    /\ UNCHANGED <<m_loadedPlugins, nextLoader, lastCall, queue, crashed, calls, m_pluginsDirectory, unloadedEvents, nodeReuse, wired, observed, m_initialized, m_pluginManager>>

\* for (name : pluginNames) unloadPlugin(name);
unloadAllPlugins_next(t) ==
    /\ ~crashed
    /\ At(t, "unloadAllPlugins", "ua_loop")
    /\ LET fr == Top(t) IN
       IF fr.todo = << >>
       THEN stack' = SetTop(t, Ret(fr, TRUE))
       ELSE stack' = [stack EXCEPT ![t] =
                Append([@ EXCEPT ![Depth(t)] = [fr EXCEPT !.pc = "ua_call"]],
                       [NewFrame("unloadPlugin", Head(fr.todo), TRUE) EXCEPT
                            !.pc = IF Head(fr.todo) = "" THEN "ret" ELSE "unload_lock"])]
    /\ UNCHANGED <<m_loadedPlugins, m_pluginsLock, nextLoader, lastCall, queue, crashed, calls, m_pluginsDirectory, unloadedEvents, nodeReuse, wired, observed, m_initialized, m_pluginManager>>

UnloadAllSteps(t) ==
    \/ unloadAllPlugins_snapshot(t)
    \/ unloadAllPlugins_next(t)

\* ------------------------------------------------------------------------
\* loadAllPlugins
\* ------------------------------------------------------------------------
loadAllPlugins(t, pluginsDirectory) ==
    /\ CanCall(t)
    /\ stack' = Push(t, [NewFrame("loadAllPlugins", pluginsDirectory, FALSE) EXCEPT !.pc = "la_start"])
    /\ UNCHANGED <<m_loadedPlugins, m_pluginsLock, nextLoader, lastCall, queue, crashed, m_pluginsDirectory, unloadedEvents, nodeReuse, wired, observed, m_initialized, m_pluginManager>>
    /\ calls' = calls + 1

\* the directories that threads are about to assign to m_pluginsDirectory
\* together with thread t: the member is written without a lock
RacingDirectories(t) ==
    {stack[u][Len(stack[u])].arg : u \in {v \in Threads \ {t} : At(v, "loadAllPlugins", "la_start")}}

\* loadAllPlugins_scan that goes on to list a directory that does not exist
loadAllPlugins_scan_noExistsTest(t) ==
    /\ ~crashed
    /\ At(t, "loadAllPlugins", "la_start")
    /\ m_pluginsDirectory' = Top(t).arg
    /\ stack' = SetTop(t, [Top(t) EXCEPT !.pc = "la_loop", !.todo = entryList("plugins")])
    /\ UNCHANGED <<m_loadedPlugins, m_pluginsLock, nextLoader, lastCall, queue, crashed, calls, unloadedEvents, nodeReuse, wired, observed, m_initialized, m_pluginManager>>

\* m_pluginsDirectory = pluginsDirectory; dir.exists()? emitError and return,
\* or list the plugin files. Two unsynchronised assignments of the QString
\* leave either value or corrupt it.
loadAllPlugins_scan(t) ==
    /\ ~crashed
    /\ At(t, "loadAllPlugins", "la_start")
    /\ LET fr == Top(t) IN
       \/ /\ RacingDirectories(t) # {}
          /\ crashed' = TRUE
          /\ UNCHANGED <<stack, queue, m_pluginsDirectory>>
       \/ /\ m_pluginsDirectory' \in {fr.arg} \cup RacingDirectories(t)
          /\ IF ~exists(fr.arg)
             THEN /\ CanPost
                  /\ queue' = emitError(queue, "", "Plugins directory does not exist")
                  /\ stack' = SetTop(t, Posts(Ret(fr, TRUE)))
             ELSE /\ stack' = SetTop(t, [fr EXCEPT !.pc = "la_loop", !.todo = entryList(fr.arg)])
                  /\ UNCHANGED queue
          /\ UNCHANGED crashed
    /\ UNCHANGED <<m_loadedPlugins, m_pluginsLock, nextLoader, lastCall, calls, unloadedEvents, nodeReuse, wired, observed, m_initialized, m_pluginManager>>

\* for (fileName : pluginFiles) loadPlugin(dir.absoluteFilePath(fileName));
loadAllPlugins_next(t) ==
    /\ ~crashed
    /\ At(t, "loadAllPlugins", "la_loop")
    /\ LET fr == Top(t) IN
       IF fr.todo = << >>
       THEN stack' = SetTop(t, Ret(fr, TRUE))
       ELSE stack' = [stack EXCEPT ![t] =
                Append([@ EXCEPT ![Depth(t)] = [fr EXCEPT !.pc = "la_call"]],
                       [NewFrame("loadPlugin", Head(fr.todo), TRUE) EXCEPT !.pc = "load_lock"])]
    /\ UNCHANGED <<m_loadedPlugins, m_pluginsLock, nextLoader, lastCall, queue, crashed, calls, m_pluginsDirectory, unloadedEvents, nodeReuse, wired, observed, m_initialized, m_pluginManager>>

LoadAllSteps(t) ==
    \/ loadAllPlugins_scan(t)
    \/ loadAllPlugins_next(t)

\* ------------------------------------------------------------------------
\* Return from an operation
\* ------------------------------------------------------------------------
\* ------------------------------------------------------------------------
\* Application::shutdown and the PluginManager destructor
\* ------------------------------------------------------------------------
\* a call of Application::shutdown (from the destructor of Application, from
\* onAboutToQuit or from a client)
shutdown(t) ==
    /\ ~crashed
    /\ Depth(t) = 0
    /\ calls < MaxCalls
    /\ calls' = calls + 1
    /\ stack' = Push(t, [NewFrame("Application::shutdown", "", FALSE) EXCEPT !.pc = "sd_check"])
    /\ UNCHANGED <<m_loadedPlugins, m_pluginsLock, nextLoader, lastCall, queue, crashed, m_pluginsDirectory, unloadedEvents, nodeReuse, wired, observed, m_initialized, m_pluginManager>>

\* if (!m_initialized) return; (twice, around the mutex); emit aboutToQuit()
shutdown_check(t) ==
    /\ ~crashed
    /\ At(t, "Application::shutdown", "sd_check")
    /\ stack' = SetTop(t, IF m_initialized THEN [Top(t) EXCEPT !.pc = "sd_unload", !.found = TRUE]
                                           ELSE Ret(Top(t), FALSE))
    /\ UNCHANGED <<m_loadedPlugins, m_pluginsLock, nextLoader, lastCall, queue, crashed, calls, m_pluginsDirectory, unloadedEvents, nodeReuse, wired, observed, m_initialized, m_pluginManager>>

\* if (m_pluginManager) m_pluginManager->unloadAllPlugins();
shutdown_unloadAllPlugins(t) ==
    /\ ~crashed
    /\ At(t, "Application::shutdown", "sd_unload")
    /\ stack' = IF m_pluginManager
                THEN [stack EXCEPT ![t] =
                         Append([@ EXCEPT ![Depth(t)] = [Top(t) EXCEPT !.pc = "sd_reset"]],
                                [NewFrame("unloadAllPlugins", "", FALSE) EXCEPT !.pc = "ua_snapshot"])]
                ELSE SetTop(t, [Top(t) EXCEPT !.pc = "sd_reset"])
    /\ UNCHANGED <<m_loadedPlugins, m_pluginsLock, nextLoader, lastCall, queue, crashed, calls, m_pluginsDirectory, unloadedEvents, nodeReuse, wired, observed, m_initialized, m_pluginManager>>

\* m_configManager->sync(); m_pluginManager.reset(): ~PluginManager calls unloadAllPlugins()
shutdown_reset(t) ==
    /\ ~crashed
    /\ At(t, "Application::shutdown", "sd_reset")
    /\ stack' = IF m_pluginManager
                THEN [stack EXCEPT ![t] =
                         Append([@ EXCEPT ![Depth(t)] = [Top(t) EXCEPT !.pc = "sd_destroy"]],
                                [NewFrame("unloadAllPlugins", "", FALSE) EXCEPT !.pc = "ua_snapshot"])]
                ELSE SetTop(t, [Top(t) EXCEPT !.pc = "sd_destroy"])
    /\ UNCHANGED <<m_loadedPlugins, m_pluginsLock, nextLoader, lastCall, queue, crashed, calls, m_pluginsDirectory, unloadedEvents, nodeReuse, wired, observed, m_initialized, m_pluginManager>>

\* ~PluginManager ends: the members are destroyed (the map with its records
\* and loaders) and the events posted to the manager are dropped; the other
\* managers are reset; m_initialized.store(false)
shutdown_destroy(t) ==
    /\ ~crashed
    /\ At(t, "Application::shutdown", "sd_destroy")
    /\ m_loadedPlugins' = << >>
    /\ queue' = << >>
    /\ m_pluginManager' = FALSE
    /\ m_initialized' = FALSE
    /\ stack' = SetTop(t, Ret(Top(t), TRUE))
    /\ UNCHANGED <<m_pluginsLock, nextLoader, lastCall, crashed, calls, m_pluginsDirectory, unloadedEvents, nodeReuse, wired, observed>>

ShutdownSteps(t) ==
    \/ shutdown_check(t)
    \/ shutdown_unloadAllPlugins(t)
    \/ shutdown_reset(t)
    \/ shutdown_destroy(t)

\* Return that ends a directory scan at the first loadPlugin returning false
Return_stopOnFailure(t) ==
    /\ ~crashed
    /\ Depth(t) > 0
    /\ Top(t).pc = "ret"
    /\ LET rest == SubSeq(stack[t], 1, Depth(t) - 1) IN
       IF Top(t).sub
       THEN stack' = [stack EXCEPT ![t] =
                [rest EXCEPT ![Len(rest)] =
                    [@ EXCEPT !.pc = IF rest[Len(rest)].op = "loadAllPlugins" THEN "la_loop" ELSE "ua_loop",
                              !.todo = IF rest[Len(rest)].op = "loadAllPlugins" /\ ~Top(t).result
                                       THEN << >> ELSE Tail(@)]]]
       ELSE stack' = [stack EXCEPT ![t] = rest]
    /\ UNCHANGED <<m_loadedPlugins, m_pluginsLock, nextLoader, lastCall, queue, crashed, calls, m_pluginsDirectory, unloadedEvents, nodeReuse, wired, observed, m_initialized, m_pluginManager>>

Return(t) ==
    /\ ~crashed
    /\ Depth(t) > 0
    /\ Top(t).pc = "ret"
    /\ LET rest == SubSeq(stack[t], 1, Depth(t) - 1) IN
       IF Top(t).sub
       THEN stack' = [stack EXCEPT ![t] =
                [rest EXCEPT ![Len(rest)] =
                    [@ EXCEPT !.pc = IF rest[Len(rest)].op = "loadAllPlugins" THEN "la_loop" ELSE "ua_loop",
                              !.todo = Tail(@)]]]
       ELSE stack' = [stack EXCEPT ![t] = rest]
    /\ UNCHANGED <<m_loadedPlugins, m_pluginsLock, nextLoader, lastCall, queue, crashed, calls, m_pluginsDirectory, unloadedEvents, nodeReuse, wired, observed, m_initialized, m_pluginManager>>

\* ------------------------------------------------------------------------
\* Signals of the plugins and the manager's event queue
\* ------------------------------------------------------------------------
SignalKinds == {"statusChanged_true", "statusChanged_false", "errorOccurred"}

\* the connections made on a plugin object by the connect() calls of
\* initializePlugin. Nothing disconnects them, and the root object of a module
\* outlives the QPluginLoader it was obtained from (the module stays in memory
\* unless QPluginLoader::unload() is called, which the manager never does).
Connections(plugin) == {c \in wired : c[1] = plugin}

\* the queued lambda calls of one signal emission, in connection order
RECURSIVE QueuedCalls(_, _, _)
QueuedCalls(kind, plugin, ldrs) ==
    IF ldrs = {} THEN << >>
    ELSE LET l == CHOOSE x \in ldrs : \A y \in ldrs : x <= y IN
         <<SignalEvent(kind, plugin, l)>> \o QueuedCalls(kind, plugin, ldrs \ {l})

\* a plugin emits statusChanged or errorOccurred: the lambda of each connection is queued
PluginSignal(plugin, kind) ==
    /\ ~crashed
    /\ Connections(plugin) # {}
    /\ Len(queue) + Cardinality(Connections(plugin)) <= MaxQueue
    /\ calls < MaxCalls
    /\ calls' = calls + 1
    /\ queue' = queue \o QueuedCalls(kind, plugin, {c[2] : c \in Connections(plugin)})
    /\ UNCHANGED <<m_loadedPlugins, m_pluginsLock, stack, nextLoader, lastCall, crashed, m_pluginsDirectory, unloadedEvents, nodeReuse, wired, observed, m_initialized, m_pluginManager>>

\* Deliver that hands the oldest event to the listeners at once, also from
\* inside an operation of the manager's thread
Deliver_direct(t) ==
    /\ ~crashed
    /\ t = MainThread
    /\ queue # << >>
    /\ LET e == Head(queue) IN
       stack' = Push(t, [NewFrame("deliver", e.kind, FALSE) EXCEPT
                            !.pc = IF e.kind = "pluginError" THEN "deliver_listener" ELSE "deliver_name",
                            !.plugin = e.plugin, !.it = e.loader])
    /\ queue' = Tail(queue)
    /\ UNCHANGED <<m_loadedPlugins, m_pluginsLock, nextLoader, lastCall, crashed, calls, m_pluginsDirectory, unloadedEvents, nodeReuse, wired, observed, m_initialized, m_pluginManager>>

\* the event loop of the manager's thread takes the oldest event
Deliver(t) ==
    /\ ~crashed
    /\ t = MainThread
    /\ Depth(t) = 0
    /\ queue # << >>
    /\ LET e == Head(queue) IN
       stack' = Push(t, [NewFrame("deliver", e.kind, FALSE) EXCEPT
                            !.pc = IF e.kind = "pluginError" THEN "deliver_listener" ELSE "deliver_name",
                            !.plugin = e.plugin, !.it = e.loader])
    /\ queue' = Tail(queue)
    /\ UNCHANGED <<m_loadedPlugins, m_pluginsLock, nextLoader, lastCall, crashed, calls, m_pluginsDirectory, unloadedEvents, nodeReuse, wired, observed, m_initialized, m_pluginManager>>

\* the queued lambda called plugin->name(); emit pluginEnabled/pluginDisabled/pluginError starts
Deliver_name(t) ==
    /\ ~crashed
    /\ At(t, "deliver", "deliver_name")
    /\ stack' = SetTop(t, [Top(t) EXCEPT !.pc = "deliver_listener"])
    /\ observed' = [observed EXCEPT ![name(Top(t).plugin)] =
                        IF Top(t).arg = "statusChanged_true" THEN "pluginEnabled"
                        ELSE IF Top(t).arg = "statusChanged_false" THEN "pluginDisabled"
                        ELSE @]
    /\ UNCHANGED <<m_loadedPlugins, m_pluginsLock, nextLoader, lastCall, queue, crashed, calls, m_pluginsDirectory, unloadedEvents, nodeReuse, wired, m_initialized, m_pluginManager>>

\* the listeners returned
Deliver_done(t) ==
    /\ ~crashed
    /\ At(t, "deliver", "deliver_listener")
    /\ stack' = [stack EXCEPT ![t] = SubSeq(@, 1, Depth(t) - 1)]
    /\ UNCHANGED <<m_loadedPlugins, m_pluginsLock, nextLoader, lastCall, queue, crashed, calls, m_pluginsDirectory, unloadedEvents, nodeReuse, wired, observed, m_initialized, m_pluginManager>>

DeliverSteps(t) ==
    \/ Deliver(t)
    \/ Deliver_name(t)
    \/ Deliver_done(t)

\* ------------------------------------------------------------------------
\* Specifications
\* ------------------------------------------------------------------------
TopLevel(t) == Depth(t) = 0

\* Spec: one plugin module; every operation, called from the top level of a
\* thread or re-entrantly from plugin code and listeners; plugin signals and
\* the delivery of queued events.
Next ==
    \/ \E t \in Threads : loadPlugin(t, "a1")
    \/ \E t \in Threads : unloadPlugin(t, "A")
    \/ \E t \in Threads : enablePlugin(t, "A")
    \/ \E t \in Threads : disablePlugin(t, "A")
    \/ \E t \in Threads : unloadAllPlugins(t)
    \/ \E t \in Threads : LoadSteps(t)
    \/ \E t \in Threads : UnloadSteps(t)
    \/ \E t \in Threads : EnableSteps(t)
    \/ \E t \in Threads : DisableSteps(t)
    \/ \E t \in Threads : UnloadAllSteps(t)
    \/ \E t \in Threads : DeliverSteps(t)
    \/ \E t \in Threads : Return(t)
    \/ \E t \in Threads : WildAccess(t)
    \/ \E f \in PluginFiles, k \in SignalKinds : PluginSignal(f, k)

Spec == Init /\ [][Next]_vars

\* SpecLoad: threads load modules of every kind concurrently.
NextLoad ==
    \/ \E t \in Threads, f \in FilePaths : TopLevel(t) /\ loadPlugin(t, f)
    \/ \E t \in Threads : LoadSteps(t)
    \/ \E t \in Threads : Return(t)

SpecLoad == Init /\ [][NextLoad]_vars

\* SpecLife: threads load, enable, disable and unload two plugins concurrently.
NextLife ==
    \/ \E t \in Threads, f \in {"a1", "b1"} : TopLevel(t) /\ loadPlugin(t, f)
    \/ \E t \in Threads, n \in PluginNames \cup {""} : TopLevel(t) /\ unloadPlugin(t, n)
    \/ \E t \in Threads, n \in PluginNames : TopLevel(t) /\ enablePlugin(t, n)
    \/ \E t \in Threads, n \in PluginNames : TopLevel(t) /\ disablePlugin(t, n)
    \/ \E t \in Threads : LoadSteps(t)
    \/ \E t \in Threads : UnloadSteps(t)
    \/ \E t \in Threads : EnableSteps(t)
    \/ \E t \in Threads : DisableSteps(t)
    \/ \E t \in Threads : Return(t)
    \/ \E t \in Threads : WildAccess(t)

SpecLife == Init /\ [][NextLife]_vars

\* SpecToggle: plugin A has been loaded from a1 (the state a successful
\* loadPlugin("a1") leaves); threads enable and disable it concurrently; the
\* plugin is well behaved: initialize() returns true, shutdown() returns.
InitLoaded ==
    /\ m_loadedPlugins = [n \in {"A"} |-> PluginInfo("a1", 1, "a1", TRUE)]
    /\ m_pluginsLock = [w |-> NoThread, r |-> {}]
    /\ stack = [t \in Threads |-> << >>]
    /\ nextLoader = 2
    /\ lastCall = [f \in PluginFiles |-> IF f = "a1" THEN "init_true" ELSE "none"]
    /\ queue = << >>
    /\ crashed = FALSE
    /\ calls = 0
    /\ m_pluginsDirectory = ""
    /\ unloadedEvents = [n \in PluginNames |-> 0]
    /\ nodeReuse = [n \in PluginNames |-> NoLoader]
    /\ wired = {<<m_loadedPlugins[n].pluginObject, m_loadedPlugins[n].loader>> : n \in DOMAIN m_loadedPlugins}
    /\ observed = [n \in PluginNames |-> IF n \in DOMAIN m_loadedPlugins THEN "pluginEnabled" ELSE "none"]
    /\ m_initialized = TRUE
    /\ m_pluginManager = TRUE

NextToggle ==
    \/ \E t \in Threads : TopLevel(t) /\ enablePlugin(t, "A")
    \/ \E t \in Threads : TopLevel(t) /\ disablePlugin(t, "A")
    \/ \E t \in Threads : enablePlugin_find(t)
    \/ \E t \in Threads : enablePlugin_initialize(t, "true")
    \/ \E t \in Threads : enablePlugin_store(t)
    \/ \E t \in Threads : enablePlugin_emit(t)
    \/ \E t \in Threads : disablePlugin_find(t)
    \/ \E t \in Threads : disablePlugin_shutdown(t, "return")
    \/ \E t \in Threads : disablePlugin_store(t)
    \/ \E t \in Threads : disablePlugin_emit(t)
    \/ \E t \in Threads : Return(t)

SpecToggle == InitLoaded /\ [][NextToggle]_vars

\* SpecReuse: from InitLoaded threads disable, enable and unload plugin A
\* while module b1 is loaded; shutdown() and initialize() may return or throw.
NextReuse ==
    \/ \E t \in Threads : TopLevel(t) /\ loadPlugin(t, "b1")
    \/ \E t \in Threads : TopLevel(t) /\ unloadPlugin(t, "A")
    \/ \E t \in Threads : TopLevel(t) /\ enablePlugin(t, "A")
    \/ \E t \in Threads : TopLevel(t) /\ disablePlugin(t, "A")
    \/ \E t \in Threads : LoadSteps(t)
    \/ \E t \in Threads : UnloadSteps(t)
    \/ \E t \in Threads : EnableSteps(t)
    \/ \E t \in Threads : DisableSteps(t)
    \/ \E t \in Threads : Return(t)
    \/ \E t \in Threads : WildAccess(t)

SpecReuse == InitLoaded /\ [][NextReuse]_vars

\* SpecSeq: the main thread calls the operations one after the other on one
\* well-behaved plugin: initialize() returns true, shutdown() returns.
NextSeq ==
    \/ TopLevel(MainThread) /\ loadPlugin(MainThread, "a1")
    \/ TopLevel(MainThread) /\ unloadPlugin(MainThread, "A")
    \/ TopLevel(MainThread) /\ enablePlugin(MainThread, "A")
    \/ TopLevel(MainThread) /\ disablePlugin(MainThread, "A")
    \/ loadPlugin_lock(MainThread)
    \/ loadPlugin_instance(MainThread)
    \/ loadPlugin_validate(MainThread)
    \/ loadPlugin_initialize(MainThread, "true")
    \/ loadPlugin_store(MainThread)
    \/ loadPlugin_emitLoaded(MainThread)
    \/ loadPlugin_emitEnabled(MainThread)
    \/ unloadPlugin_find(MainThread)
    \/ unloadPlugin_shutdown(MainThread, "return")
    \/ unloadPlugin_erase(MainThread)
    \/ unloadPlugin_emit(MainThread)
    \/ enablePlugin_find(MainThread)
    \/ enablePlugin_initialize(MainThread, "true")
    \/ enablePlugin_store(MainThread)
    \/ enablePlugin_emit(MainThread)
    \/ disablePlugin_find(MainThread)
    \/ disablePlugin_shutdown(MainThread, "return")
    \/ disablePlugin_store(MainThread)
    \/ disablePlugin_emit(MainThread)
    \/ Return(MainThread)

SpecSeq == Init /\ [][NextSeq]_vars

\* SpecLoadAll: threads scan directories concurrently.
NextLoadAll ==
    \/ \E t \in Threads, d \in Directories : TopLevel(t) /\ loadAllPlugins(t, d)
    \/ \E t \in Threads : LoadAllSteps(t)
    \/ \E t \in Threads : LoadSteps(t)
    \/ \E t \in Threads : Return(t)

SpecLoadAll == Init /\ [][NextLoadAll]_vars

\* SpecScan: the main thread scans directories, one call after the other.
NextScan ==
    \/ \E d \in Directories \cup FailingDirectories :
          TopLevel(MainThread) /\ loadAllPlugins(MainThread, d)
    \/ LoadAllSteps(MainThread)
    \/ LoadSteps(MainThread)
    \/ Return(MainThread)

SpecScan == Init /\ [][NextScan]_vars

\* Plugins A and B have been loaded from a1 and b1 (the state the two
\* successful loadPlugin calls leave).
InitTwoLoaded ==
    /\ m_loadedPlugins = [n \in PluginNames |->
                              IF n = "A" THEN PluginInfo("a1", 1, "a1", TRUE)
                                         ELSE PluginInfo("b1", 2, "b1", TRUE)]
    /\ m_pluginsLock = [w |-> NoThread, r |-> {}]
    /\ stack = [t \in Threads |-> << >>]
    /\ nextLoader = 3
    /\ lastCall = [f \in PluginFiles |-> IF f \in {"a1", "b1"} THEN "init_true" ELSE "none"]
    /\ queue = << >>
    /\ crashed = FALSE
    /\ calls = 0
    /\ m_pluginsDirectory = ""
    /\ unloadedEvents = [n \in PluginNames |-> 0]
    /\ nodeReuse = [n \in PluginNames |-> NoLoader]
    /\ wired = {<<m_loadedPlugins[n].pluginObject, m_loadedPlugins[n].loader>> : n \in DOMAIN m_loadedPlugins}
    /\ observed = [n \in PluginNames |-> IF n \in DOMAIN m_loadedPlugins THEN "pluginEnabled" ELSE "none"]
    /\ m_initialized = TRUE
    /\ m_pluginManager = TRUE

\* SpecUnloadAll: from InitTwoLoaded the main thread calls unloadAllPlugins,
\* nothing is loaded and no other thread acts; shutdown() may return or throw.
NextUnloadAll ==
    \/ TopLevel(MainThread) /\ unloadAllPlugins(MainThread)
    \/ UnloadAllSteps(MainThread)
    \/ UnloadSteps(MainThread)
    \/ Return(MainThread)

SpecUnloadAll == InitTwoLoaded /\ [][NextUnloadAll]_vars

\* SpecReenter: from InitTwoLoaded the main thread calls unloadAllPlugins;
\* shutdown() and the listeners of pluginUnloaded call unloadPlugin and
\* unloadAllPlugins again; shutdown() always returns normally.
Reenters(t) == Depth(t) > 0 /\ Top(t).pc \in {"unload_shutdown", "unload_emit"}
NextReenter ==
    \/ TopLevel(MainThread) /\ unloadAllPlugins(MainThread)
    \/ Reenters(MainThread) /\ unloadAllPlugins(MainThread)
    \/ \E n \in PluginNames : Reenters(MainThread) /\ unloadPlugin(MainThread, n)
    \/ unloadAllPlugins_snapshot(MainThread)
    \/ unloadAllPlugins_next(MainThread)
    \/ unloadPlugin_find(MainThread)
    \/ unloadPlugin_shutdown(MainThread, "return")
    \/ unloadPlugin_erase(MainThread)
    \/ unloadPlugin_emit(MainThread)
    \/ Return(MainThread)

SpecReenter == InitTwoLoaded /\ [][NextReenter]_vars

\* SpecSnapshot: from InitLoaded the main thread calls unloadAllPlugins while
\* the other threads load modules a1 and b1 and unload plugin A.
NextSnapshot ==
    \/ TopLevel(MainThread) /\ unloadAllPlugins(MainThread)
    \/ \E t \in Threads \ {MainThread}, f \in {"a1", "b1"} : TopLevel(t) /\ loadPlugin(t, f)
    \/ \E t \in Threads \ {MainThread} : TopLevel(t) /\ unloadPlugin(t, "A")
    \/ UnloadAllSteps(MainThread)
    \/ \E t \in Threads : LoadSteps(t)
    \/ \E t \in Threads : UnloadSteps(t)
    \/ \E t \in Threads : Return(t)
    \/ \E t \in Threads : WildAccess(t)

SpecSnapshot == InitLoaded /\ [][NextSnapshot]_vars

\* SpecSignal: from InitLoaded the main thread calls the operations one after
\* the other and runs its event loop in between; the plugin objects emit
\* their signals at any time.
NextSignal ==
    \/ \E f \in {"a1", "b1"} : TopLevel(MainThread) /\ loadPlugin(MainThread, f)
    \/ TopLevel(MainThread) /\ unloadPlugin(MainThread, "A")
    \/ TopLevel(MainThread) /\ enablePlugin(MainThread, "A")
    \/ TopLevel(MainThread) /\ disablePlugin(MainThread, "A")
    \/ LoadSteps(MainThread)
    \/ UnloadSteps(MainThread)
    \/ EnableSteps(MainThread)
    \/ DisableSteps(MainThread)
    \/ DeliverSteps(MainThread)
    \/ Return(MainThread)
    \/ WildAccess(MainThread)
    \/ \E f \in {"a1", "b1"}, k \in SignalKinds : PluginSignal(f, k)

SpecSignal == InitLoaded /\ [][NextSignal]_vars

\* The application after a successful Application::initialize that loaded two
\* plugins, or after construction, before initialize.
InitApplication ==
    \/ InitTwoLoaded
    \/ /\ m_loadedPlugins = << >>
       /\ m_pluginsLock = [w |-> NoThread, r |-> {}]
       /\ stack = [t \in Threads |-> << >>]
       /\ nextLoader = 1
       /\ lastCall = [f \in PluginFiles |-> "none"]
       /\ queue = << >>
       /\ crashed = FALSE
       /\ calls = 0
       /\ m_pluginsDirectory = ""
       /\ unloadedEvents = [n \in PluginNames |-> 0]
       /\ nodeReuse = [n \in PluginNames |-> NoLoader]
       /\ wired = {}
       /\ observed = [n \in PluginNames |-> "none"]
       /\ m_initialized = FALSE
       /\ m_pluginManager = FALSE

\* SpecShutdown: the main thread calls Application::shutdown, once or several
\* times; shutdown() of a plugin may return or throw.
NextShutdown ==
    \/ shutdown(MainThread)
    \/ ShutdownSteps(MainThread)
    \/ UnloadAllSteps(MainThread)
    \/ UnloadSteps(MainThread)
    \/ Return(MainThread)

SpecShutdown == InitApplication /\ [][NextShutdown]_vars

\* ------------------------------------------------------------------------
\* Queries
\* ------------------------------------------------------------------------
\* the capability interfaces (IPlugin.h) and the ones each module's root object implements
PluginTypes == {"IPlugin", "IMediaCodecPlugin", "IThemePlugin", "IAudioEffectPlugin"}
interfaces(f) ==
    CASE f \in {"a1", "a2", "nover"} -> {"IPlugin", "IMediaCodecPlugin"}
      [] f = "b1" -> {"IPlugin", "IThemePlugin"}
      [] OTHER -> {}
\* qobject_cast<T*>(object): the object, or null
qobject_cast(T, object) == IF T \in interfaces(object) THEN object ELSE NoPlugin

\* availablePlugins(): the names in iteration order
availablePlugins == CHOOSE o \in Orders(DOMAIN m_loadedPlugins) : TRUE
isPluginLoaded(n) == contains(m_loadedPlugins, n)
\* isPluginEnabled that reports an absent name as enabled
isPluginEnabled_absentTrue(n) ==
    IF contains(m_loadedPlugins, n) THEN m_loadedPlugins[n].enabled ELSE TRUE

isPluginEnabled(n) == IF contains(m_loadedPlugins, n) THEN m_loadedPlugins[n].enabled ELSE FALSE
loadedPluginCount == Cardinality(DOMAIN m_loadedPlugins)

\* getPluginsOfType that does not test the enabled flag
RECURSIVE getPluginsOfType_noEnabledTest(_, _)
getPluginsOfType_noEnabledTest(T, names) ==
    IF names = << >> THEN << >>
    ELSE LET info == m_loadedPlugins[Head(names)]
             plugin == qobject_cast(T, info.pluginObject) IN
         (IF plugin # NoPlugin THEN <<plugin>> ELSE << >>)
             \o getPluginsOfType_noEnabledTest(T, Tail(names))

\* getPluginsOfType<T>(): under the read lock, for each record in iteration
\* order (names): if enabled and qobject_cast<T*>(pluginObject) succeeds, append
RECURSIVE getPluginsOfType(_, _)
getPluginsOfType(T, names) ==
    IF names = << >> THEN << >>
    ELSE LET info == m_loadedPlugins[Head(names)]
             plugin == qobject_cast(T, info.pluginObject) IN
         (IF info.enabled /\ plugin # NoPlugin THEN <<plugin>> ELSE << >>)
             \o getPluginsOfType(T, Tail(names))
\* enabledPluginCount(): the records whose enabled flag is set
enabledPluginCount == Cardinality({n \in DOMAIN m_loadedPlugins : m_loadedPlugins[n].enabled})
\* getPlugin(name) / getPluginUnsafe(name): the plugin of the record, or null
getPluginUnsafe(n) ==
    IF contains(m_loadedPlugins, n) THEN qobject_cast("IPlugin", m_loadedPlugins[n].pluginObject)
    ELSE NoPlugin
getPlugin(n) == getPluginUnsafe(n)

Quiescent == \A t \in Threads : Depth(t) = 0
\* thread t takes a step of its innermost call (neither a call nor a return)
Acts(t, op) ==
    /\ Depth(t) > 0
    /\ Top(t).op = op
    /\ Len(stack'[t]) = Depth(t)
    /\ stack'[t] # stack[t]
TopNext(t) == stack'[t][Depth(t)]

\* places where code of the loaded module runs
ModuleCodePcs == PluginCallPcs \cup {"load_instance", "load_validate", "deliver_name"}
\* places where a thread waits for the lock
ReadLockPcs == {"enable_lock", "disable_lock", "ua_snapshot"}
WriteLockPcs == {"load_lock", "load_relock", "unload_lock", "unload_relock"}
Blocked(t) ==
    /\ Depth(t) > 0
    /\ \/ Top(t).pc \in ReadLockPcs /\ ~canLockForRead(m_pluginsLock, t)
       \/ Top(t).pc \in WriteLockPcs /\ ~canLockForWrite(m_pluginsLock, t)
\* the thread is inside initialize(), shutdown() or a listener
InCallback(t) == Depth(t) > 0 /\ Top(t).pc \in PluginCallPcs \cup ListenerPcs
\* the call of frame fr is the second call of the behaviour, after one loadPlugin
OnlyCallAfterLoad(fr) == fr.found /\ calls = 2

\* ------------------------------------------------------------------------
\* C1  No method of a plugin instance is called, and no field of its record
\* is read or written, once the record has been erased and its module handle
\* released: no call is executing shutdown(), initialize(), name() or the
\* store to the enabled flag through a pointer or iterator whose record is gone.
\* ------------------------------------------------------------------------
C1_NoUseAfterRelease ==
    \A fr \in Frames : fr.pc \in DerefPcs => ~Dangling(fr.it)

\* ------------------------------------------------------------------------
\* C2  No thread holds the registry lock while code of a loaded module runs
\* on it: instance creation, name(), version(), initialize(), shutdown().
\* ------------------------------------------------------------------------
C2_NoLockInModuleCode ==
    \A t \in Threads : \A i \in 1..Depth(t) :
        stack[t][i].pc \in ModuleCodePcs => ~Holds(t)

\* ------------------------------------------------------------------------
\* C3  A thread that is inside initialize(), shutdown() or a listener of a
\* manager signal does not hold the registry lock, so a call it makes
\* re-entrantly is not blocked by itself; whenever a thread waits for the
\* lock, the lock is held by another thread that is running its critical
\* section (not waiting, not inside initialize(), shutdown() or a listener);
\* hence the threads are never all blocked on the lock.
\* ------------------------------------------------------------------------
C3_LockFreeInCallbacks ==
    /\ \A t \in Threads : InCallback(t) => ~Holds(t)
    /\ \A t \in Threads : Blocked(t) =>
          \E u \in Threads \ {t} : Holds(u) /\ ~Blocked(u) /\ ~InCallback(u)
    /\ ~(\A t \in Threads : Blocked(t))
\* a call made from inside shutdown() or initialize() of a registered plugin found
\* the record and returned, and a second thread got through the lock meanwhile
C3_Witness ==
    \E t \in Threads : \E u \in Threads \ {t} :
        /\ Depth(t) = 2
        /\ stack[t][1].pc \in PluginCallPcs
        /\ stack[t][2].pc = "ret" /\ stack[t][2].found
        /\ Depth(u) > 0 /\ Top(u).pc = "ret"

\* ------------------------------------------------------------------------
\* C4  Of two loadPlugin calls that run concurrently on modules reporting
\* the same name, both of which initialize successfully, exactly one
\* returns true.
\* ------------------------------------------------------------------------
C4_ExactlyOneSuccess ==
    \A t \in Threads : \A u \in Threads \ {t} :
        ( /\ At(t, "loadPlugin", "ret") /\ At(u, "loadPlugin", "ret")
          /\ Top(t).initOk /\ Top(u).initOk
          /\ name(Top(t).arg) = name(Top(u).arg) )
        => (Top(t).result # Top(u).result)

\* ------------------------------------------------------------------------
\* C5  A loadPlugin call on a valid module whose name was free at the
\* collision check and whose initialize() did not fail returns true, and
\* the name is then listed by availablePlugins() exactly once; in particular
\* concurrent loads of modules with distinct names all succeed.
\* ------------------------------------------------------------------------
C5_DistinctLoadsSucceed ==
    \A t \in Threads :
        ( /\ At(t, "loadPlugin", "ret")
          /\ Top(t).arg \in PluginFiles
          /\ ~Top(t).found
          /\ ~Top(t).initFailed ) =>
            /\ Top(t).result
            /\ Cardinality({i \in 1..Len(availablePlugins) :
                               availablePlugins[i] = name(Top(t).arg)}) = 1
C5_Witness ==
    \E t \in Threads : \E u \in Threads \ {t} :
        /\ At(t, "loadPlugin", "ret") /\ At(u, "loadPlugin", "ret")
        /\ Top(t).result /\ Top(u).result
        /\ name(Top(t).arg) # name(Top(u).arg)
        /\ loadedPluginCount = 2

\* ------------------------------------------------------------------------
\* C6  A loadPlugin call that finds the module's name registered at its
\* collision check returns false at that step, and no step of a loadPlugin
\* call other than the insert changes the registry: names, file paths,
\* module handles and enabled flags stay as they were.
\* ------------------------------------------------------------------------
C6_DuplicateRejected ==
    [][\A t \in Threads :
          Acts(t, "loadPlugin") =>
            /\ (Top(t).pc # "load_relock" => m_loadedPlugins' = m_loadedPlugins)
            /\ ( ( /\ Top(t).pc = "load_validate"
                   /\ contains(m_loadedPlugins, name(Top(t).arg)) )
                 => (TopNext(t).pc = "ret" /\ ~TopNext(t).result) )]_vars
\* a module was rejected because another file had registered its name
C6_Witness ==
    \E t \in Threads :
        /\ At(t, "loadPlugin", "ret") /\ Top(t).found /\ ~Top(t).result
        /\ isPluginLoaded(name(Top(t).arg))
        /\ m_loadedPlugins[name(Top(t).arg)].filePath # Top(t).arg

\* ------------------------------------------------------------------------
\* C7  Between operations, a registered record has enabled = true only if
\* the most recent lifecycle call made on its instance was an initialize()
\* that returned true.
\* ------------------------------------------------------------------------
C7_EnabledMeansInitialized ==
    Quiescent =>
        \A n \in DOMAIN m_loadedPlugins :
            m_loadedPlugins[n].enabled => lastCall[m_loadedPlugins[n].pluginObject] = "init_true"

\* ------------------------------------------------------------------------
\* C8  Within an unloadPlugin call the steps are ordered: shutdown() runs
\* with the lock released and changes nothing in the registry; the call
\* changes the registry only afterwards, at the erase step, with the write
\* lock available to it, removing exactly its record; the record's module
\* handle is released by that step and not before by this call.
\* ------------------------------------------------------------------------
C8_UnloadOrder ==
    [][\A t \in Threads :
          Acts(t, "unloadPlugin") =>
            /\ (Top(t).pc = "unload_shutdown" =>
                    ~Holds(t) /\ m_loadedPlugins' = m_loadedPlugins)
            /\ (m_loadedPlugins' # m_loadedPlugins =>
                    /\ Top(t).pc = "unload_relock"
                    /\ canLockForWrite(m_pluginsLock, t)
                    /\ m_loadedPlugins' = erase(m_loadedPlugins, Top(t).arg)
                    /\ TopNext(t).pc = "unload_emit")]_vars
\* an unloadPlugin call has removed its record and the handle is released
C8_Witness ==
    \E t \in Threads :
        /\ At(t, "unloadPlugin", "unload_emit")
        /\ Top(t).erased /\ Released(Top(t).it)
        /\ ~isPluginLoaded(Top(t).arg)

\* ------------------------------------------------------------------------
\* C9  unloadPlugin of a registered name returns true whatever shutdown()
\* does.
\* ------------------------------------------------------------------------
C9_UnloadNotPreventable ==
    \A t \in Threads :
        (At(t, "unloadPlugin", "ret") /\ Top(t).found) => Top(t).result

Posted == IF Len(queue') = Len(queue) + 1 THEN queue'[Len(queue')] ELSE ErrorEvent("", "")

\* C11: when initialize() returns false or throws during loadPlugin, the
\* call returns false, the registry is not changed by it, the handle the
\* call opened is released when it returns, and an error event naming the
\* plugin with the message "Initialization failed" is posted.
C11_InitFailureReported ==
    [][\A t \in Threads :
          (Acts(t, "loadPlugin") /\ Top(t).pc = "load_init" /\ TopNext(t).initFailed)
              => /\ TopNext(t).pc = "ret" /\ ~TopNext(t).result
                 /\ m_loadedPlugins' = m_loadedPlugins
                 /\ Top(t).loader \notin LiveLoaders'
                 /\ Posted = ErrorEvent(name(Top(t).plugin), "Initialization failed")]_vars

\* ------------------------------------------------------------------------
\* C12  A loadPlugin call of a valid module (name and version non-empty)
\* passes every stage: it reaches initialize() when the name is free at the
\* collision check, and when initialize() returns true and the name is free
\* at the insert, the insert adds exactly one record under the module's
\* name, with the call's file path and handle and enabled = true, so that
\* isPluginLoaded(name) is true and loadedPluginCount() is one more; the
\* call then emits its signals and returns true.
\* ------------------------------------------------------------------------
C12_ValidLoadRegisters ==
    [][\A t \in Threads :
          Acts(t, "loadPlugin") =>
              LET fr == Top(t)
                  nx == TopNext(t)
                  n == name(fr.plugin) IN
              /\ (fr.pc = "load_instance" /\ fr.arg \in PluginFiles) => nx.pc = "load_validate"
              /\ (fr.pc = "load_validate" /\ validatePlugin(fr.plugin) /\ ~contains(m_loadedPlugins, n))
                     => nx.pc = "load_init"
              /\ (fr.pc = "load_init" /\ nx.initOk)
                     => nx.pc = "load_relock" /\ m_loadedPlugins' = m_loadedPlugins
              /\ (fr.pc = "load_relock" /\ ~contains(m_loadedPlugins, n))
                     => /\ DOMAIN m_loadedPlugins' = DOMAIN m_loadedPlugins \cup {n}
                        /\ \A k \in DOMAIN m_loadedPlugins : m_loadedPlugins'[k] = m_loadedPlugins[k]
                        /\ m_loadedPlugins'[n] = [pluginObject |-> fr.plugin, loader |-> fr.loader,
                                                  filePath |-> fr.arg, enabled |-> TRUE]
                        /\ isPluginLoaded(n)'
                        /\ isPluginEnabled(n)'
                        /\ loadedPluginCount' = loadedPluginCount + 1
                        /\ nx.pc = "load_emit_loaded"
              /\ fr.pc = "load_emit_loaded" => nx.pc = "load_emit_enabled"
              /\ fr.pc = "load_emit_enabled" => nx.pc = "ret" /\ nx.result]_vars
\* a valid module was loaded: the call returned true and its own record,
\* with its file path, is registered and enabled
C12_Witness ==
    \E t \in Threads :
        /\ At(t, "loadPlugin", "ret") /\ Top(t).result /\ Top(t).initOk
        /\ contains(m_loadedPlugins, name(Top(t).plugin))
        /\ m_loadedPlugins[name(Top(t).plugin)].filePath = Top(t).arg
        /\ m_loadedPlugins[name(Top(t).plugin)].enabled
        /\ isPluginLoaded(name(Top(t).plugin))
        /\ loadedPluginCount = 1

\* ------------------------------------------------------------------------
\* C13  An unloadPlugin call whose name is not in the registry at its lookup
\* returns false at that step: the step calls no plugin method, emits no
\* pluginUnloaded, posts no event and leaves the registry and the count as
\* they were; a call that did not find its name is never at shutdown(), at
\* the erase or at the emission, and its result is false.
\* ------------------------------------------------------------------------
C13_UnloadAbsent ==
    [][\A t \in Threads :
          /\ (Acts(t, "unloadPlugin") /\ Top(t).pc = "unload_lock"
                  /\ ~contains(m_loadedPlugins, Top(t).arg))
                 => /\ TopNext(t).pc = "ret" /\ ~TopNext(t).result
                    /\ m_loadedPlugins' = m_loadedPlugins
                    /\ loadedPluginCount' = loadedPluginCount
                    /\ lastCall' = lastCall
                    /\ unloadedEvents' = unloadedEvents
                    /\ queue' = queue
          /\ (Len(stack'[t]) > 0 /\ stack'[t][Len(stack'[t])].op = "unloadPlugin"
                  /\ ~stack'[t][Len(stack'[t])].found)
                 => /\ stack'[t][Len(stack'[t])].pc \in {"unload_lock", "ret"}
                    /\ ~stack'[t][Len(stack'[t])].result]_vars
\* an unloadPlugin call of a name that is not registered has returned false
\* while another plugin is registered
C13_Witness ==
    \E t \in Threads :
        /\ At(t, "unloadPlugin", "ret")
        /\ Top(t).arg \in PluginNames
        /\ ~Top(t).found /\ ~Top(t).result
        /\ ~contains(m_loadedPlugins, Top(t).arg)
        /\ loadedPluginCount = 1

\* ------------------------------------------------------------------------
\* C14  An enablePlugin call that finds its plugin registered with the
\* enabled flag true returns true at that step, without calling
\* initialize(), without emitting pluginEnabled and without changing the
\* registry; a call goes on to initialize() only when it read the flag as
\* false.
\* ------------------------------------------------------------------------
C14_EnableIdempotent ==
    [][\A t \in Threads :
          (Acts(t, "enablePlugin") /\ Top(t).pc = "enable_lock")
              => /\ (contains(m_loadedPlugins, Top(t).arg) /\ m_loadedPlugins[Top(t).arg].enabled)
                        => /\ TopNext(t).pc = "ret" /\ TopNext(t).result
                           /\ m_loadedPlugins' = m_loadedPlugins
                           /\ lastCall' = lastCall
                           /\ queue' = queue
                 /\ TopNext(t).pc = "enable_init"
                        => contains(m_loadedPlugins, Top(t).arg) /\ ~m_loadedPlugins[Top(t).arg].enabled]_vars
\* enablePlugin returned true for a plugin that was already enabled: the
\* call made no initialize() call and the plugin is still enabled
C14_Witness ==
    \E t \in Threads :
        /\ At(t, "enablePlugin", "ret")
        /\ Top(t).found /\ Top(t).result /\ ~Top(t).initOk
        /\ isPluginEnabled(Top(t).arg)
        /\ lastCall[m_loadedPlugins[Top(t).arg].pluginObject] = "init_true"

\* ------------------------------------------------------------------------
\* C15  A disablePlugin call that finds its plugin registered with the
\* enabled flag false returns true at that step, without calling
\* shutdown(), without emitting pluginDisabled and without changing the
\* registry; a call goes on to shutdown() only when it read the flag as
\* true.
\* ------------------------------------------------------------------------
C15_DisableIdempotent ==
    [][\A t \in Threads :
          (Acts(t, "disablePlugin") /\ Top(t).pc = "disable_lock")
              => /\ (contains(m_loadedPlugins, Top(t).arg) /\ ~m_loadedPlugins[Top(t).arg].enabled)
                        => /\ TopNext(t).pc = "ret" /\ TopNext(t).result
                           /\ m_loadedPlugins' = m_loadedPlugins
                           /\ lastCall' = lastCall
                           /\ queue' = queue
                 /\ TopNext(t).pc = "disable_shutdown"
                        => contains(m_loadedPlugins, Top(t).arg) /\ m_loadedPlugins[Top(t).arg].enabled]_vars
\* disablePlugin returned true for a plugin that was already disabled: the
\* plugin's last call is the shutdown() of the earlier disablePlugin
C15_Witness ==
    \E t \in Threads :
        /\ At(t, "disablePlugin", "ret")
        /\ Top(t).found /\ Top(t).result /\ Top(t).plugin = NoPlugin
        /\ isPluginLoaded(Top(t).arg) /\ ~isPluginEnabled(Top(t).arg)
        /\ lastCall[m_loadedPlugins[Top(t).arg].pluginObject] = "shutdown"

\* ------------------------------------------------------------------------
\* C16  A disablePlugin call that finds its plugin registered and enabled
\* goes to shutdown(), which is the only plugin call it makes; when
\* shutdown() returns normally the call stores false in the record's enabled
\* flag (the record being still the one it found), emits pluginDisabled and
\* returns true. No step of the call adds or removes a record.
\* ------------------------------------------------------------------------
C16_DisableEnabled ==
    [][\A t \in Threads :
          Acts(t, "disablePlugin") =>
              LET fr == Top(t)
                  nx == TopNext(t) IN
              /\ DOMAIN m_loadedPlugins' = DOMAIN m_loadedPlugins
              /\ loadedPluginCount' = loadedPluginCount
              /\ (fr.pc = "disable_lock" /\ contains(m_loadedPlugins, fr.arg)
                      /\ m_loadedPlugins[fr.arg].enabled)
                     => /\ nx.pc = "disable_shutdown"
                        /\ nx.plugin = m_loadedPlugins[fr.arg].pluginObject
              /\ fr.pc = "disable_shutdown"
                     => /\ lastCall' = [lastCall EXCEPT ![fr.plugin] = "shutdown"]
                        /\ nx.pc \in {"disable_store", "ret"}
                        /\ nx.pc = "ret" => ~nx.result /\ queue' # queue
              /\ fr.pc # "disable_shutdown" => lastCall' = lastCall
              /\ (fr.pc = "disable_store" /\ validIterator(fr))
                     => /\ m_loadedPlugins' = [m_loadedPlugins EXCEPT ![fr.arg].enabled = FALSE]
                        /\ isPluginLoaded(fr.arg)' /\ ~isPluginEnabled(fr.arg)'
                        /\ nx.pc = "disable_emit"
              /\ fr.pc = "disable_emit" => nx.pc = "ret" /\ nx.result]_vars
\* disablePlugin called shutdown() on an enabled plugin and returned true:
\* the record is still registered, with the flag false
C16_Witness ==
    \E t \in Threads :
        /\ At(t, "disablePlugin", "ret")
        /\ Top(t).result /\ Top(t).plugin # NoPlugin
        /\ lastCall[Top(t).plugin] = "shutdown"
        /\ isPluginLoaded(Top(t).arg) /\ ~isPluginEnabled(Top(t).arg)
        /\ loadedPluginCount = 1

\* ------------------------------------------------------------------------
\* C17  An enablePlugin call that finds its plugin registered and disabled
\* goes to initialize(), which is the only plugin call it makes; when
\* initialize() returns true the call stores true in the record's enabled
\* flag (the record being still the one it found), emits pluginEnabled and
\* returns true; otherwise it returns false. No step of the call adds or
\* removes a record.
\* ------------------------------------------------------------------------
C17_EnableDisabled ==
    [][\A t \in Threads :
          Acts(t, "enablePlugin") =>
              LET fr == Top(t)
                  nx == TopNext(t) IN
              /\ DOMAIN m_loadedPlugins' = DOMAIN m_loadedPlugins
              /\ loadedPluginCount' = loadedPluginCount
              /\ (fr.pc = "enable_lock" /\ contains(m_loadedPlugins, fr.arg)
                      /\ ~m_loadedPlugins[fr.arg].enabled)
                     => /\ nx.pc = "enable_init"
                        /\ nx.plugin = m_loadedPlugins[fr.arg].pluginObject
              /\ fr.pc = "enable_init"
                     => /\ lastCall'[fr.plugin] \in {"init_true", "init_fail"}
                        /\ \A f \in PluginFiles \ {fr.plugin} : lastCall'[f] = lastCall[f]
                        /\ m_loadedPlugins' = m_loadedPlugins
                        /\ IF lastCall'[fr.plugin] = "init_true"
                           THEN nx.pc = "enable_store"
                           ELSE nx.pc = "ret" /\ ~nx.result
              /\ fr.pc # "enable_init" => lastCall' = lastCall
              /\ (fr.pc = "enable_store" /\ validIterator(fr))
                     => /\ m_loadedPlugins' = [m_loadedPlugins EXCEPT ![fr.arg].enabled = TRUE]
                        /\ isPluginLoaded(fr.arg)' /\ isPluginEnabled(fr.arg)'
                        /\ nx.pc = "enable_emit"
              /\ fr.pc = "enable_emit" => nx.pc = "ret" /\ nx.result]_vars
\* enablePlugin called initialize() on a disabled plugin and returned true:
\* the record is registered, with the flag true
C17_Witness ==
    \E t \in Threads :
        /\ At(t, "enablePlugin", "ret")
        /\ Top(t).result /\ Top(t).initOk
        /\ lastCall[Top(t).plugin] = "init_true"
        /\ isPluginLoaded(Top(t).arg) /\ isPluginEnabled(Top(t).arg)

\* ------------------------------------------------------------------------
\* C18  With two plugins registered and no loadPlugin call made by any
\* thread, loadedPluginCount() is 0 when an unloadAllPlugins call returns,
\* whatever the shutdown() calls did.
\* ------------------------------------------------------------------------
C18_UnloadAllEmpties ==
    \A t \in Threads :
        At(t, "unloadAllPlugins", "ret") => loadedPluginCount = 0

\* ------------------------------------------------------------------------
\* C19  With two plugins registered, when the outermost unloadAllPlugins
\* call returns, pluginUnloaded has been emitted exactly once for each of
\* the two names, also when shutdown() or a listener of pluginUnloaded
\* called unloadPlugin or unloadAllPlugins again.
\* ------------------------------------------------------------------------
C19_OneUnloadedEventPerName ==
    (Depth(MainThread) = 1 /\ At(MainThread, "unloadAllPlugins", "ret"))
        => \A n \in PluginNames : unloadedEvents[n] = 1

\* ------------------------------------------------------------------------
\* C20  A loadAllPlugins call on a directory that does not exist posts
\* exactly one pluginError event (the directory error) and returns: the
\* step changes neither the registry nor the loaders, and the call never
\* has a list of files and never calls loadPlugin.
\* ------------------------------------------------------------------------
C20_MissingDirectory ==
    [][\A t \in Threads :
          /\ (Acts(t, "loadAllPlugins") /\ ~exists(Top(t).arg))
                 => /\ Top(t).pc = "la_start" /\ TopNext(t).pc = "ret"
                    /\ TopNext(t).todo = << >>
                    /\ queue' = Append(queue, ErrorEvent("", "Plugins directory does not exist"))
                    /\ m_loadedPlugins' = m_loadedPlugins
                    /\ nextLoader' = nextLoader
                    /\ lastCall' = lastCall
          /\ (Depth(t) > 0 /\ stack[t][1].op = "loadAllPlugins" /\ ~exists(stack[t][1].arg))
                 => Len(stack'[t]) <= 1]_vars
\* loadAllPlugins("missing") has returned: the only event is its error and
\* nothing is registered
C20_Witness ==
    \E t \in Threads :
        /\ At(t, "loadAllPlugins", "ret")
        /\ Top(t).arg = "missing"
        /\ m_pluginsDirectory = "missing"
        /\ queue = <<ErrorEvent("", "Plugins directory does not exist")>>
        /\ loadedPluginCount = 0

\* ------------------------------------------------------------------------
\* C21  In a directory scan, whatever a candidate's loadPlugin returned the
\* scan goes on with the rest of the listing: the return of a candidate
\* only removes that candidate from the list, the scan calls loadPlugin for
\* the next file as long as the list is not empty and ends only on the
\* empty list; and each candidate whose loadPlugin goes to a false return
\* posts one error event of its own at that step.
\* ------------------------------------------------------------------------
C21_ScanContinues ==
    [][LET t == MainThread
           d == Depth(t) IN
       (d > 0 /\ stack[t][1].op = "loadAllPlugins" /\ stack'[t] # stack[t]) =>
           /\ (d = 2 /\ Top(t).pc = "ret")
                  => /\ Len(stack'[t]) = 1
                     /\ stack'[t][1].pc = "la_loop"
                     /\ stack'[t][1].todo = Tail(stack[t][1].todo)
           /\ (d = 1 /\ Top(t).pc = "la_loop" /\ Top(t).todo # << >>)
                  => /\ Len(stack'[t]) = 2
                     /\ stack'[t][2].op = "loadPlugin"
                     /\ stack'[t][2].arg = Head(Top(t).todo)
                     /\ stack'[t][2].pc = "load_lock"
           /\ (d = 1 /\ Len(stack'[t]) = 1 /\ stack'[t][1].pc = "ret")
                  => stack'[t][1].todo = << >>
           /\ (d = 2 /\ Top(t).pc # "ret" /\ TopNext(t).pc = "ret" /\ ~TopNext(t).result)
                  => /\ Len(queue') = Len(queue) + 1
                     /\ Posted.kind = "pluginError"
                     /\ TopNext(t).posted]_vars
\* the scan of "broken" is over: the file that does not open and the module
\* without a name each left an error event, and b1 after them was loaded
C21_Witness ==
    /\ At(MainThread, "loadAllPlugins", "ret")
    /\ Top(MainThread).arg = "broken"
    /\ Len(queue) = 2
    /\ queue[1].error = "Failed to load plugin"
    /\ queue[2].error = "Plugin validation failed"
    /\ isPluginLoaded("B")

\* ------------------------------------------------------------------------
\* C22  A loadPlugin call whose module reports an empty name or an empty
\* version returns false at the validation step, posting the validation
\* error and changing nothing in the registry; initialize() is never called
\* on such a module.
\* ------------------------------------------------------------------------
C22_EmptyNameOrVersionRejected ==
    [][/\ \A t \in Threads :
            (Acts(t, "loadPlugin") /\ Top(t).pc = "load_validate"
                 /\ (name(Top(t).plugin) = "" \/ version(Top(t).plugin) = ""))
                => /\ TopNext(t).pc = "ret" /\ ~TopNext(t).result
                   /\ Posted = ErrorEvent("", "Plugin validation failed")
                   /\ m_loadedPlugins' = m_loadedPlugins
                   /\ lastCall' = lastCall
       /\ \A t \in Threads :
            (Acts(t, "loadPlugin") /\ Top(t).pc = "load_init")
                => name(Top(t).plugin) # "" /\ version(Top(t).plugin) # ""]_vars
\* loadPlugin of the module with a name and no version has returned false
\* with its validation error, nothing was registered
C22_Witness ==
    \E t \in Threads :
        /\ At(t, "loadPlugin", "ret")
        /\ Top(t).arg = "nover"
        /\ ~Top(t).result /\ Top(t).posted
        /\ ErrorEvent("", "Plugin validation failed") \in {queue[i] : i \in 1..Len(queue)}
        /\ loadedPluginCount = 0

\* ------------------------------------------------------------------------
\* C23  Every loadPlugin, unloadPlugin, enablePlugin or disablePlugin call
\* that returns false has posted a pluginError event.
\* ------------------------------------------------------------------------
C23_FalseReturnPostsError ==
    \A t \in Threads :
        (Depth(t) > 0
             /\ Top(t).op \in {"loadPlugin", "unloadPlugin", "enablePlugin", "disablePlugin"}
             /\ Top(t).pc = "ret" /\ ~Top(t).result)
            => Top(t).posted

\* the events waiting in the queue
Queued == {queue[i] : i \in 1..Len(queue)}

RelockPcs == {"load_relock", "unload_relock"}

\* ------------------------------------------------------------------------
\* C25  Every change of the registry (insert, erase, update of an enabled
\* flag) is made by a step that re-acquired the registry lock after the
\* plugin call.
\* ------------------------------------------------------------------------
C25_CommitUnderLock ==
    [][m_loadedPlugins' # m_loadedPlugins
          => \E t \in Threads :
                /\ Depth(t) > 0
                /\ stack'[t] # stack[t]
                /\ Top(t).pc \in RelockPcs]_vars

\* the plugin name an operation's call is about
Concerns(fr) == IF fr.op = "loadPlugin" THEN name(fr.arg) ELSE fr.arg

\* ------------------------------------------------------------------------
\* C26  No step of a loadPlugin, unloadPlugin, enablePlugin or disablePlugin
\* call changes the record of a name other than the one the call is about:
\* every other registered name stays registered with the same file path,
\* module handle and enabled flag.
\* ------------------------------------------------------------------------
C26_OtherRecordsUnchanged ==
    [][\A t \in Threads :
          (/\ Depth(t) > 0
           /\ Top(t).op \in {"loadPlugin", "unloadPlugin", "enablePlugin", "disablePlugin"}
           /\ stack'[t] # stack[t])
              => \A k \in DOMAIN m_loadedPlugins \ {Concerns(Top(t))} :
                    /\ k \in DOMAIN m_loadedPlugins'
                    /\ m_loadedPlugins'[k] = m_loadedPlugins[k]]_vars

\* ------------------------------------------------------------------------
\* C27  When loadPlugin calls initialize() on a module, no record is
\* registered under the module's reported name.
\* ------------------------------------------------------------------------
C27_NoInitializeOnTakenName ==
    [][\A t \in Threads :
          (Acts(t, "loadPlugin") /\ Top(t).pc = "load_init")
              => ~contains(m_loadedPlugins, name(Top(t).plugin))]_vars

\* ------------------------------------------------------------------------
\* C28  When a loadPlugin call in which initialize() succeeded returns, the
\* module instance is held by a registry record or shutdown() has been
\* called on it; when the call returns true, the record under the module's
\* name has the file path and the instance of this call.
\* ------------------------------------------------------------------------
C28_InitializedInstanceKept ==
    \A t \in Threads :
        (At(t, "loadPlugin", "ret") /\ Top(t).initOk)
            => LET fr == Top(t)
                   n == name(fr.plugin) IN
               /\ \/ \E k \in DOMAIN m_loadedPlugins : m_loadedPlugins[k].pluginObject = fr.plugin
                  \/ lastCall[fr.plugin] = "shutdown"
               /\ fr.result => /\ contains(m_loadedPlugins, n)
                               /\ m_loadedPlugins[n].filePath = fr.arg
                               /\ m_loadedPlugins[n].pluginObject = fr.plugin

\* ------------------------------------------------------------------------
\* C29  For each plugin instance the manager's initialize() and shutdown()
\* calls alternate: initialize() is not called on an instance whose last
\* call was an initialize() that returned true, and shutdown() is called
\* only on an instance whose last call was an initialize().
\* ------------------------------------------------------------------------
C29_CallsAlternate ==
    [][\A t \in Threads :
          (Depth(t) > 0 /\ stack'[t] # stack[t] /\ Len(stack'[t]) = Depth(t))
              => /\ Top(t).pc \in {"load_init", "enable_init"}
                        => lastCall[Top(t).plugin] \in {"none", "shutdown", "init_fail"}
                 /\ Top(t).pc \in {"unload_shutdown", "disable_shutdown"}
                        => lastCall[Top(t).plugin] \in {"init_true", "init_fail"}]_vars

\* ------------------------------------------------------------------------
\* C30  Of the unloadPlugin calls running concurrently for one registered
\* name only the call that removed the record emits pluginUnloaded and
\* returns true; the others return false.
\* ------------------------------------------------------------------------
C30_OneUnloadSucceeds ==
    \A t \in Threads : \A i \in 1..Depth(t) :
        LET fr == stack[t][i] IN
        (fr.op = "unloadPlugin" /\ (fr.pc = "unload_emit" \/ (fr.pc = "ret" /\ fr.result)))
            => fr.erased

\* the elements of a sequence
Range(s) == {s[i] : i \in 1..Len(s)}

\* ------------------------------------------------------------------------
\* C31 (as stated)  A record inserted after unloadAllPlugins copied the names
\* is not removed by that unloadAllPlugins call.
\* ------------------------------------------------------------------------
C31_RegisteredLaterKept ==
    [][\A t \in Threads :
          (/\ Depth(t) > 0 /\ stack[t][1].op = "unloadAllPlugins"
           /\ stack[t][1].pc # "ua_snapshot" /\ stack'[t] # stack[t])
              => \A n \in DOMAIN m_loadedPlugins :
                     m_loadedPlugins[n].loader \notin stack[t][1].copied
                         => n \in DOMAIN m_loadedPlugins']_vars

\* ------------------------------------------------------------------------
\* C31  unloadAllPlugins copies the registered names once, holding the read
\* lock only for the copy, and then calls unloadPlugin for the copied names
\* in turn, one call per name, holding no lock when it makes a call. No step
\* of the call touches the record of a name that is not in the copy, so a
\* plugin registered after the copy under a name that is not in the copy
\* stays registered, and for a copied name
\* that is no longer registered the unloadPlugin call returns false with no
\* event, no error and no plugin call.
\* ------------------------------------------------------------------------
C31_SnapshotThenUnload ==
    [][\A t \in Threads :
          (Depth(t) > 0 /\ stack[t][1].op = "unloadAllPlugins" /\ stack'[t] # stack[t])
              => LET ua == stack[t][1]
                     ua2 == stack'[t][1] IN
                 /\ ua.pc = "ua_snapshot"
                        => /\ Range(ua2.pluginNames) = DOMAIN m_loadedPlugins
                           /\ Len(ua2.pluginNames) = Cardinality(DOMAIN m_loadedPlugins)
                           /\ ua2.todo = ua2.pluginNames
                           /\ m_pluginsLock'.w # t /\ t \notin m_pluginsLock'.r
                 /\ ua.pc # "ua_snapshot"
                        => /\ Len(stack'[t]) > 0 => ua2.pluginNames = ua.pluginNames
                           /\ \E k \in 1..(Len(ua.pluginNames) + 1) :
                                 ua.todo = SubSeq(ua.pluginNames, k, Len(ua.pluginNames))
                 /\ (ua.pc = "ua_loop" /\ ua.todo # << >>)
                        => /\ ~Holds(t)
                           /\ Len(stack'[t]) = 2
                           /\ stack'[t][2].op = "unloadPlugin"
                           /\ stack'[t][2].arg = Head(ua.todo)
                           /\ ua2.todo = ua.todo
                 /\ (ua.pc = "ua_loop" /\ ua.todo = << >>) => ua2.pc = "ret"
                 /\ (ua.pc = "ua_call" /\ Len(stack'[t]) = 1)
                        => ua2.pc = "ua_loop" /\ ua2.todo = Tail(ua.todo)
                 /\ \A n \in DOMAIN m_loadedPlugins \ Range(ua.pluginNames) :
                        ua.pc # "ua_snapshot"
                            => n \in DOMAIN m_loadedPlugins' /\ m_loadedPlugins'[n] = m_loadedPlugins[n]
                 /\ (At(t, "unloadPlugin", "unload_lock") /\ ~contains(m_loadedPlugins, Top(t).arg))
                        => /\ TopNext(t) = Ret(Top(t), FALSE)
                           /\ UNCHANGED <<m_loadedPlugins, queue, lastCall, unloadedEvents>>]_vars
\* unloadAllPlugins returned: its copy held only A, which another thread had
\* unloaded before the call reached it, and B, loaded after the copy, is registered
C31_Witness ==
    /\ At(MainThread, "unloadAllPlugins", "ret")
    /\ Top(MainThread).pluginNames = <<"A">>
    /\ isPluginLoaded("B") /\ ~isPluginLoaded("A")
    /\ unloadedEvents["A"] = 1
    /\ \E t \in Threads \ {MainThread} : At(t, "unloadPlugin", "ret") /\ Top(t).erased

\* the plugin object is the one of a registered record
Registered(plugin) ==
    \E n \in DOMAIN m_loadedPlugins : m_loadedPlugins[n].pluginObject = plugin
\* the step is the emission of a signal by a plugin object (PluginSignal)
Emits ==
    /\ Len(queue') > Len(queue)
    /\ queue'[Len(queue')].kind \in SignalKinds

\* ------------------------------------------------------------------------
\* C32  Each statusChanged or errorOccurred signal that the plugin object of
\* a registered record emits puts exactly one call of the forwarding lambda
\* into the manager's queue, and enablePlugin and disablePlugin make no
\* connection.
\* ------------------------------------------------------------------------
C32_ForwardedOnce ==
    [][/\ (Emits /\ Registered(queue'[Len(queue')].plugin)) => Len(queue') = Len(queue) + 1
       /\ \A t \in Threads :
              (Acts(t, "enablePlugin") \/ Acts(t, "disablePlugin")) => wired' = wired]_vars

\* ------------------------------------------------------------------------
\* C33  While the manager emits pluginEnabled, pluginDisabled or pluginError
\* for a signal of a plugin object, that object belongs to a registered
\* record.
\* ------------------------------------------------------------------------
C33_ForwardedOnlyIfRegistered ==
    \A t \in Threads : \A i \in 1..Depth(t) :
        LET fr == stack[t][i] IN
        (fr.op = "deliver" /\ fr.pc = "deliver_listener" /\ fr.arg \in SignalKinds)
            => Registered(fr.plugin)

\* ------------------------------------------------------------------------
\* C34  When no operation is running and the queue is empty, for every
\* registered name isPluginEnabled(name) is true exactly if the last of the
\* pluginEnabled(name) / pluginDisabled(name) events that the listeners got
\* was pluginEnabled(name).
\* ------------------------------------------------------------------------
C34_FlagAgreesWithEvents ==
    (Quiescent /\ queue = << >>)
        => \A n \in DOMAIN m_loadedPlugins :
               isPluginEnabled(n) <=> (observed[n] = "pluginEnabled")

LoadEmitPcs == {"load_emit_loaded", "load_emit_enabled"}

\* ------------------------------------------------------------------------
\* C35 (as stated)  While a loadPlugin call is emitting pluginLoaded(name) or
\* pluginEnabled(name), isPluginLoaded(name) is true.
\* ------------------------------------------------------------------------
C35_ListenerSeesLoaded ==
    \A t \in Threads :
        (Depth(t) > 0 /\ Top(t).op = "loadPlugin" /\ Top(t).pc \in LoadEmitPcs)
            => isPluginLoaded(name(Top(t).plugin))

\* ------------------------------------------------------------------------
\* C35  A loadPlugin call emits pluginLoaded(name) and then
\* pluginEnabled(name), and returns true after them; the emission starts in a
\* state where the record is registered, and the call holds no registry lock
\* while it emits; a call that returns false has emitted neither event. While
\* the events are emitted the name stays registered unless a step of an
\* unloadPlugin(name) call removes the record.
\* ------------------------------------------------------------------------
C35_LoadEvents ==
    [][\A t \in Threads :
          /\ (Depth(t) > 0 /\ Top(t).op = "loadPlugin" /\ Top(t).pc \in LoadEmitPcs)
                 => /\ ~Holds(t)
                    /\ (isPluginLoaded(name(Top(t).plugin))
                            /\ name(Top(t).plugin) \notin DOMAIN m_loadedPlugins')
                           => \E u \in Threads :
                                 /\ At(u, "unloadPlugin", "unload_relock")
                                 /\ Top(u).arg = name(Top(t).plugin)
                                 /\ stack'[u] # stack[u]
          /\ Acts(t, "loadPlugin")
                 => /\ TopNext(t).pc = "load_emit_loaded"
                           => /\ Top(t).pc = "load_relock"
                              /\ name(Top(t).plugin) \in DOMAIN m_loadedPlugins'
                              /\ m_pluginsLock'.w # t /\ t \notin m_pluginsLock'.r
                    /\ TopNext(t).pc = "load_emit_enabled" => Top(t).pc = "load_emit_loaded"
                    /\ TopNext(t).pc = "ret"
                           => (TopNext(t).result <=> Top(t).pc = "load_emit_enabled")]_vars
\* a loadPlugin call is emitting pluginEnabled and the name is registered
C35_Witness ==
    \E t \in Threads :
        /\ At(t, "loadPlugin", "load_emit_enabled")
        /\ isPluginLoaded(name(Top(t).plugin))
        /\ m_loadedPlugins[name(Top(t).plugin)].filePath = Top(t).arg
        /\ ~Holds(t)

\* ------------------------------------------------------------------------
\* C36  The step in which initialize() returns false or throws in
\* enablePlugin, or shutdown() throws in disablePlugin, ends the call with
\* the result false and leaves every record and the listeners' events as
\* they were; pluginEnabled / pluginDisabled is emitted only after the store
\* that follows a successful plugin call.
\* ------------------------------------------------------------------------
C36_FailedToggleChangesNothing ==
    [][\A t \in Threads :
          /\ (Acts(t, "enablePlugin") /\ Top(t).pc = "enable_init")
                 => IF lastCall'[Top(t).plugin] = "init_true"
                    THEN TopNext(t).pc = "enable_store"
                    ELSE /\ TopNext(t).pc = "ret" /\ ~TopNext(t).result
                         /\ UNCHANGED <<m_loadedPlugins, observed>>
          /\ (Acts(t, "disablePlugin") /\ Top(t).pc = "disable_shutdown")
                 => IF queue' = queue
                    THEN TopNext(t).pc = "disable_store"
                    ELSE /\ TopNext(t).pc = "ret" /\ ~TopNext(t).result
                         /\ UNCHANGED <<m_loadedPlugins, observed>>
          /\ (Acts(t, "enablePlugin") /\ TopNext(t).pc = "enable_emit") => Top(t).pc = "enable_store"
          /\ (Acts(t, "disablePlugin") /\ TopNext(t).pc = "disable_emit") => Top(t).pc = "disable_store"]_vars
\* an enablePlugin call returned false after initialize() failed on a disabled
\* plugin: the flag is false and the listeners' last event is pluginDisabled
C36_Witness ==
    \E t \in Threads :
        /\ At(t, "enablePlugin", "ret") /\ ~Top(t).result /\ Top(t).initFailed
        /\ isPluginLoaded(Top(t).arg) /\ ~isPluginEnabled(Top(t).arg)
        /\ observed[Top(t).arg] = "pluginDisabled"

\* ------------------------------------------------------------------------
\* C37  In every state and for every capability T, getPluginsOfType<T>()
\* returns, once each, the plugin objects of exactly the records whose
\* enabled flag is set and whose object implements T, whatever the iteration
\* order of the map; nothing that is not registered is returned.
\* ------------------------------------------------------------------------
C37_PluginsOfType ==
    \A T \in PluginTypes : \A names \in Orders(DOMAIN m_loadedPlugins) :
        LET result == getPluginsOfType(T, names)
            wanted == {n \in DOMAIN m_loadedPlugins :
                          m_loadedPlugins[n].enabled /\ T \in interfaces(m_loadedPlugins[n].pluginObject)} IN
        /\ Range(result) = {m_loadedPlugins[n].pluginObject : n \in wanted}
        /\ Len(result) = Cardinality(wanted)
\* A is registered and disabled, B is registered and enabled: the query for
\* IPlugin returns B's object only, the query for IMediaCodecPlugin nothing
C37_Witness ==
    /\ DOMAIN m_loadedPlugins = {"A", "B"}
    /\ ~m_loadedPlugins["A"].enabled /\ m_loadedPlugins["B"].enabled
    /\ getPluginsOfType("IPlugin", <<"A", "B">>) = <<m_loadedPlugins["B"].pluginObject>>
    /\ getPluginsOfType("IMediaCodecPlugin", <<"A", "B">>) = << >>
    /\ getPluginsOfType("IThemePlugin", <<"B", "A">>) = <<"b1">>

\* ------------------------------------------------------------------------
\* C38  In every state enabledPluginCount() <= loadedPluginCount(),
\* loadedPluginCount() is the number of names availablePlugins() returns,
\* isPluginEnabled(name) implies isPluginLoaded(name), and for a name that
\* is not registered isPluginEnabled is false and getPlugin returns null.
\* ------------------------------------------------------------------------
C38_QueriesConsistent ==
    /\ enabledPluginCount <= loadedPluginCount
    /\ loadedPluginCount = Len(availablePlugins)
    /\ Range(availablePlugins) = DOMAIN m_loadedPlugins
    /\ \A n \in PluginNames \cup {""} :
          /\ isPluginEnabled(n) => isPluginLoaded(n)
          /\ ~isPluginLoaded(n) => (~isPluginEnabled(n) /\ getPlugin(n) = NoPlugin)
\* A is registered and disabled, B is not registered
C38_Witness ==
    /\ isPluginLoaded("A") /\ ~isPluginEnabled("A") /\ getPlugin("A") # NoPlugin
    /\ ~isPluginLoaded("B") /\ ~isPluginEnabled("B") /\ getPlugin("B") = NoPlugin
    /\ enabledPluginCount = 0 /\ loadedPluginCount = 1

\* ------------------------------------------------------------------------
\* C39  During an Application::shutdown call no plugin gets shutdown() a
\* second time; when a call that found the application initialized returns,
\* every plugin that was registered has had shutdown() called and
\* pluginUnloaded emitted once; a call that finds the application not
\* initialized (a second call, or one before initialize) changes nothing.
\* ------------------------------------------------------------------------
C39_ShutdownOnce ==
    [][(Depth(MainThread) > 0 /\ stack[MainThread][1].op = "Application::shutdown"
            /\ stack'[MainThread] # stack[MainThread])
          => /\ At(MainThread, "unloadPlugin", "unload_shutdown")
                    => lastCall[Top(MainThread).plugin] # "shutdown"
             /\ At(MainThread, "Application::shutdown", "sd_destroy")
                    => \A c \in wired : /\ unloadedEvents[name(c[1])] = 1
                                         /\ lastCall[c[1]] = "shutdown"
             /\ (At(MainThread, "Application::shutdown", "sd_check") /\ ~m_initialized)
                    => /\ Len(stack'[MainThread]) = 1 /\ stack'[MainThread][1].pc = "ret"
                       /\ UNCHANGED <<m_loadedPlugins, lastCall, queue, unloadedEvents,
                                      m_initialized, m_pluginManager>>]_vars
====
